---- MODULE Spec2Model ----
(***************************************************************************)
(* The persona-scoped memory store of mo11y (src/enhanced_memory.py) and   *)
(* the agent pipeline that reads and writes it (src/mo11y_agent.py).       *)
(*                                                                         *)
(* Text is a sequence of one-character strings, so that SQLite's LIKE,     *)
(* Python's split/lower and the string comparison of timestamps are        *)
(* computed the way the program computes them.  Importance, confidence and *)
(* significance are REAL in the program; here they are integers counting   *)
(* tenths (0.7 is 7).  Time is counted in ticks, TicksPerDay to a day.     *)
(***************************************************************************)
EXTENDS Integers, Sequences, FiniteSets, TLC

\* ------------------------------------------------------------------ bounds
\* episodic ids handed out by AUTOINCREMENT in one behaviour
MaxRows == 2
\* the clock stops advancing at this tick
MaxNow == 3
\* clock ticks in one calendar day
TicksPerDay == 2
\* no call is made that would raise an access_count beyond this
MaxAccess == 2
\* rows held by the media, emotional, milestone and preference tables
\* together, and media ids handed out in one behaviour
MaxAttached == 1
\* episodic ids handed out in one behaviour that has retention runs
MaxOldRows == 1
\* episodic ids handed out in one behaviour that ranks memories
MaxRanked == 4
\* the clock stops advancing at this tick in such a behaviour
MaxRankedNow == 1

\* memories without tags in a behaviour of the ranking specification
MaxUntagged == 1

\* episodic rows in a behaviour of the query specification
MaxQueried == 2

\* ------------------------------------------------------------------- text
\* SQL NULL / Python None where the program expects text
NULL == <<"NULL">>

\* the lower-case letter of each upper-case ASCII letter
LowerOf ==
  [A |-> "a", B |-> "b", C |-> "c", D |-> "d", E |-> "e", F |-> "f",
   G |-> "g", H |-> "h", I |-> "i", J |-> "j", K |-> "k", L |-> "l",
   M |-> "m", N |-> "n", O |-> "o", P |-> "p", Q |-> "q", R |-> "r",
   S |-> "s", T |-> "t", U |-> "u", V |-> "v", W |-> "w", X |-> "x",
   Y |-> "y", Z |-> "z"]

\* str.lower() / the ASCII case folding of LIKE, one character
UpperChars == DOMAIN LowerOf

LowerChar(c) == IF c \in UpperChars THEN LowerOf[c] ELSE c

\* str.lower()
Lower(s) == [i \in 1..Len(s) |-> LowerChar(s[i])]

\* s[i:] of Python, i counted from 1
Drop(s, i) == IF i > Len(s) THEN <<>> ELSE SubSeq(s, i, Len(s))

\* s.startswith(sub)
StartsWith(s, sub) == Len(sub) <= Len(s) /\ SubSeq(s, 1, Len(sub)) = sub

\* `sub in s`
Contains(s, sub) == \E i \in 1..(Len(s) + 1) : StartsWith(Drop(s, i), sub)

\* SQLite's LIKE: % is any run of characters, _ is any one character, any
\* other character matches itself up to ASCII case.  LikeAt matches pattern
\* p[i..] against text s[j..], both already folded to lower case.
RECURSIVE LikeAt(_, _, _, _)
LikeAt(p, i, s, j) ==
  IF i > Len(p) THEN j > Len(s)
  ELSE IF p[i] = "%"
    THEN i = Len(p) \/ \E k \in j..(Len(s) + 1) : LikeAt(p, i + 1, s, k)
    ELSE /\ j <= Len(s)
         /\ (p[i] = "_" \/ p[i] = s[j])
         /\ LikeAt(p, i + 1, s, j + 1)

\* `s LIKE p`; NULL LIKE p is NULL, which a WHERE clause treats as false
Like(s, p) == s # NULL /\ LikeAt(Lower(p), 1, Lower(s), 1)

\* the parameter f"%{x}%"
Wrap(x) == <<"%">> \o x \o <<"%">>

\* s.split(sep)[-1]: what follows the last occurrence of sep
AfterLast(s, sep) ==
  LET at == {i \in 1..Len(s) : StartsWith(Drop(s, i), sep)}
  IN  IF at = {} THEN s
      ELSE Drop(s, (CHOOSE i \in at : \A j \in at : j <= i) + Len(sep))

\* s.split(sep)[0]: what precedes the first occurrence of sep
BeforeFirst(s, sep) ==
  LET at == {i \in 1..Len(s) : StartsWith(Drop(s, i), sep)}
  IN  IF at = {} THEN s
      ELSE SubSeq(s, 1, (CHOOSE i \in at : \A j \in at : i <= j) - 1)

\* str.isspace() of one character
IsSpace(c) == c \in {" ", "\n", "\t"}

\* str.strip()
Strip(s) ==
  LET keep == {i \in 1..Len(s) : ~IsSpace(s[i])}
  IN  IF keep = {} THEN <<>>
      ELSE SubSeq(s, CHOOSE i \in keep : \A j \in keep : i <= j,
                     CHOOSE i \in keep : \A j \in keep : j <= i)

\* str.split(): the maximal runs of characters that are not white space
RECURSIVE SplitFrom(_, _, _)
SplitFrom(s, i, word) ==
  IF i > Len(s) THEN (IF word = <<>> THEN <<>> ELSE <<word>>)
  ELSE IF IsSpace(s[i])
    THEN (IF word = <<>> THEN <<>> ELSE <<word>>) \o SplitFrom(s, i + 1, <<>>)
    ELSE SplitFrom(s, i + 1, Append(word, s[i]))

Split(s) == SplitFrom(s, 1, <<>>)

\* list[:n]
Take(list, n) == SubSeq(list, 1, IF n < Len(list) THEN n ELSE Len(list))

\* the values of a list, as set(list)
Range(list) == {list[i] : i \in DOMAIN list}

\* truthiness of an optional text argument: neither None nor ""
Given(x) == x # NULL /\ x # <<>>

\* ", ".join of the quoted items, as json.dumps writes a list of strings
RECURSIVE JsonItems(_)
JsonItems(list) ==
  IF list = <<>> THEN <<>>
  ELSE <<"\"">> \o Head(list) \o <<"\"">>
       \o (IF Len(list) > 1 THEN <<",", " ">> ELSE <<>>)
       \o JsonItems(Tail(list))

\* json.dumps(list of strings)
JsonDumps(list) == <<"[">> \o JsonItems(list) \o <<"]">>

\* json.loads of a list of strings that json.dumps wrote without escapes:
\* the texts between the 1st and 2nd, 3rd and 4th, ... quotation mark
RECURSIVE JsonLoadsFrom(_, _, _, _)
JsonLoadsFrom(text, i, inside, word) ==
  IF i > Len(text) THEN <<>>
  ELSE IF text[i] = "\""
    THEN (IF inside THEN <<word>> ELSE <<>>)
         \o JsonLoadsFrom(text, i + 1, ~inside, <<>>)
    ELSE JsonLoadsFrom(text, i + 1, inside,
                       IF inside THEN Append(word, text[i]) ELSE word)

JsonLoads(text) == JsonLoadsFrom(text, 1, FALSE, <<>>)

\* --------------------------------------------------------------- literals
ConversationKind == <<"c","o","n","v","e","r","s","a","t","i","o","n">>

PersonaKey == <<"p","e","r","s","o","n","a",":">>

\* f"conversation|persona:{persona_name}"
RelationshipContext(persona_name) ==
  ConversationKind \o <<"|">> \o PersonaKey \o persona_name

\* persona names the sona files can carry
Al == <<"A","l">>

Ali == <<"A","l","i">>

al == <<"a","l">>

Bo == <<"B","o">>

PersonaNames == {Al, Ali, al, Bo}

\* ------------------------------------------------------------------ state
VARIABLES
  episodic_memories,  \* table: id -> row
  semantic_memories,  \* table: the set of its rows
  sqlite_sequence,    \* AUTOINCREMENT: the largest episodic id handed out
  media_sequence,     \* AUTOINCREMENT: the largest media id handed out
  now,                \* the clock, in ticks of UTC
  tz,                 \* offset of local time from UTC, in ticks
  sona,               \* persona_name of the running agent
  last,               \* the last call made at this time of the clock:
                      \* operation, arguments, outcome
  emotional_memories,       \* table: its rows in order of insertion
  media_memories,           \* table: its rows in order of insertion
  memory_associations,      \* table: the set of its rows
  relationship_milestones,  \* table: its rows in order of insertion
  user_preferences,         \* table: the set of its rows
  conversation_patterns,    \* table: its rows in order of insertion
  media_dir,          \* the managed media directory: its subdirectories
                      \* and the files in them
  connections,        \* the connections that calls which have returned or
                      \* raised left open: "none", "open" (some, none of
                      \* them in a write transaction) or "locked" (some,
                      \* one of them in a write transaction)
  running             \* the calls in progress on connections of their own,
                      \* one per client, and the connection that holds the
                      \* write lock of the database file among them

\* the tables only the retention operations and their own writers touch
other_tables ==
  <<emotional_memories, media_memories, memory_associations,
    relationship_milestones, user_preferences, conversation_patterns>>

vars ==
  <<episodic_memories, semantic_memories, sqlite_sequence, now, tz, sona, last,
    other_tables, media_sequence, media_dir, connections, running>>

\* os.path.join(self.media_dir, ...) of init_database: the subdirectories of
\* the managed media directory, no file in them
DirImages == <<"i","m","a","g","e","s">>

DirAudio == <<"a","u","d","i","o">>

DirThumbnails == <<"t","h","u","m","b","n","a","i","l","s">>

MediaDirs == [dirs |-> {DirImages, DirAudio, DirThumbnails}, files |-> {}]

\* ------------------------------------------------------------- timestamps
\* code points of the separators of the two timestamp formats
SpaceCode == 32

LetterTCode == 84

\* CURRENT_TIMESTAMP of SQLite: 'YYYY-MM-DD HH:MM:SS', in UTC
CurrentTimestamp(t) == <<t \div TicksPerDay, SpaceCode, t % TicksPerDay>>

\* (datetime.now() - timedelta(days=days)).isoformat():
\* 'YYYY-MM-DDTHH:MM:SS.ffffff', in local time
CutoffIso(t, offset, days) ==
  LET local == t + offset - days * TicksPerDay
  IN  <<local \div TicksPerDay, LetterTCode, local % TicksPerDay>>

\* a < b for two timestamp texts: SQLite compares TEXT bytewise, so the date,
\* then the separator, then the time of day decide
TextLess(a, b) ==
  \/ a[1] < b[1]
  \/ a[1] = b[1] /\ a[2] < b[2]
  \/ a[1] = b[1] /\ a[2] = b[2] /\ a[3] < b[3]

\* the instant a stored timestamp names, in ticks of UTC
InstantOf(ts) == ts[1] * TicksPerDay + ts[3]

\* ------------------------------------------------------------ connections
\* sqlite3.connect(self.db_path) followed by conn.close() on the path taken
Closed == UNCHANGED connections

\* a path that returns or raises without conn.close() and outside a write
\* transaction: the connection stays open until the garbage collector finds
\* it
LeftOpen == connections' = IF connections = "locked" THEN "locked" ELSE "open"

\* a path that raises inside a write transaction: the connection stays open
\* and keeps the write lock of the database file
LeftLocking == connections' = "locked"

\* a statement that writes fails with "database is locked" while a
\* connection left open keeps the write lock
Locked == connections = "locked"

\* the garbage collector closes the connections left open; closing rolls
\* back the transaction a connection was in
Collect ==
  /\ connections # "none"
  /\ connections' = "none"
  /\ UNCHANGED <<episodic_memories, semantic_memories, sqlite_sequence, now,
                 tz, running, sona, last, other_tables, media_sequence, media_dir>>

\* --------------------------------------------------------- episodic write
\* the INSERT of remember_episodic: content is NOT NULL, id is AUTOINCREMENT,
\* timestamp and consolidated take their column defaults
remember_episodic(content, importance, tags, relationship_context) ==
  IF Locked \/ content = NULL
    THEN [raised |-> TRUE, id |-> 0, rows |-> episodic_memories,
          seq |-> sqlite_sequence]
    ELSE LET memory_id == sqlite_sequence + 1
             row == [timestamp |-> CurrentTimestamp(now),
                     content |-> content,
                     importance_score |-> importance,
                     tags |-> IF tags # <<>> THEN JsonDumps(tags) ELSE NULL,
                     relationship_context |-> relationship_context,
                     consolidated |-> FALSE]
         IN  [raised |-> FALSE, id |-> memory_id,
              rows |-> [i \in DOMAIN episodic_memories \cup {memory_id} |->
                          IF i = memory_id THEN row ELSE episodic_memories[i]],
              seq |-> memory_id]

\* a caller stores an episodic memory
RememberEpisodic(contents, importances, taglists, contexts) ==
  \E content \in contents, importance \in importances,
     tags \in taglists, rc \in contexts :
    LET r == remember_episodic(content, importance, tags, rc)
    IN  /\ episodic_memories' = r.rows
        /\ sqlite_sequence' = r.seq
        /\ last' = [op |-> "remember_episodic",
                    args |-> [content |-> content, importance |-> importance,
                              tags |-> tags, relationship_context |-> rc],
                    result |-> r.id, raised |-> r.raised]
        /\ IF ~r.raised THEN Closed
           ELSE IF Locked THEN LeftOpen ELSE LeftLocking
        /\ UNCHANGED <<other_tables, media_sequence, media_dir>>
        /\ UNCHANGED <<semantic_memories, now, tz, running, sona>>

\* no call made so far at this time of the clock
NoCall == [op |-> "none", args |-> <<>>, result |-> NULL, raised |-> FALSE]

\* time passes
Tick ==
  /\ now < MaxNow
  /\ now' = now + 1
  /\ last' = NoCall
  /\ UNCHANGED <<other_tables, media_sequence, media_dir, connections>>
  /\ UNCHANGED <<episodic_memories, semantic_memories, sqlite_sequence, tz, running,
                 sona>>

\* --------------------------------------------------------- semantic table
DigitChars == <<"0","1","2","3","4","5","6","7","8","9">>

\* str(n) for n >= 0
RECURSIVE IntToStr(_)
IntToStr(n) ==
  IF n < 10 THEN <<DigitChars[n + 1]>>
  ELSE IntToStr(n \div 10) \o <<DigitChars[(n % 10) + 1]>>

ImportantEventPrefix ==
  <<"i","m","p","o","r","t","a","n","t","_","e","v","e","n","t","_">>

\* f"important_event_{memory_id}"
SemanticKey(memory_id) == ImportantEventPrefix \o IntToStr(memory_id)

\* the keys of the rows of the semantic table
SemanticKeys(table) == {r.key : r \in table}

\* fetchone() of SELECT ... FROM semantic_memories WHERE key = ?
SemanticRow(table, key) == CHOOSE r \in table : r.key = key

\* the row of an INSERT that leaves access_count to count from 1 again
FirstSemanticInsert(table, key, value, confidence, source_memory_id, t) ==
  [key |-> key,
   value |-> value,
   confidence |-> confidence,
   source_memory_id |-> source_memory_id,
   last_accessed |-> CurrentTimestamp(t),
   access_count |-> 1]

\* the row of the INSERT of remember_semantic: access_count is
\* COALESCE((SELECT access_count ... WHERE key = ?), 0) + 1, last_accessed is
\* CURRENT_TIMESTAMP.  source_memory_id 0 is NULL.
SemanticInsert(table, key, value, confidence, source_memory_id, t) ==
  [key |-> key,
   value |-> value,
   confidence |-> confidence,
   source_memory_id |-> source_memory_id,
   last_accessed |-> CurrentTimestamp(t),
   access_count |-> (IF key \in SemanticKeys(table)
                       THEN SemanticRow(table, key).access_count
                       ELSE 0) + 1]

\* a plain INSERT into a table whose key column is not UNIQUE: the rows of
\* the key stay
InsertSemantic(table, key, value, confidence, source_memory_id, t) ==
  table \cup {SemanticInsert(table, key, value, confidence,
                             source_memory_id, t)}

\* INSERT OR REPLACE INTO semantic_memories: key is UNIQUE, so the rows that
\* have the key are deleted and the new row is inserted
remember_semantic(table, key, value, confidence, source_memory_id, t) ==
  {r \in table : r.key # key}
    \cup {SemanticInsert(table, key, value, confidence, source_memory_id, t)}

\* the access counts are within the bound of the model
WithinAccessBound(table) ==
  \A r \in table : r.access_count <= MaxAccess

\* ---------------------------------------------------------- consolidation
\* `if importance > 0.7`, in tenths
HighImportance == 7

\* WHERE consolidated = 0 AND timestamp < cutoff
ToConsolidate(rows, cutoff) ==
  {i \in DOMAIN rows :
     ~rows[i].consolidated /\ TextLess(rows[i].timestamp, cutoff)}

\* The engine returns the rows an ORDER BY leaves tied in the order its
\* scan visits them, the same every time the statement runs on the same
\* rows: by ascending rowid, through the table as through the index on
\* timestamp.  Row i comes before row j when the ORDER BY ties them:
TiedBefore(i, j) == i < j

\* the order ORDER BY importance_score DESC returns the rows of ids in
RECURSIVE ByImportance(_, _)
ByImportance(rows, ids) ==
  IF ids = {} THEN {<<>>}
  ELSE UNION {{<<i>> \o o : o \in ByImportance(rows, ids \ {i})} :
                i \in {i \in ids :
                         \A j \in ids \ {i} :
                           \/ rows[i].importance_score
                                > rows[j].importance_score
                           \/ /\ rows[i].importance_score
                                   = rows[j].importance_score
                              /\ TiedBefore(i, j)}}

\* the UPDATE written without its WHERE clause, the flag computed per row:
\* SET consolidated = (id = ?)
MarkOnlyCurrent(rows, memory_id) ==
  [i \in DOMAIN rows |-> [rows[i] EXCEPT !.consolidated = (i = memory_id)]]

\* UPDATE episodic_memories SET consolidated = 1 WHERE id = ?
MarkConsolidated(rows, memory_id) ==
  [rows EXCEPT ![memory_id].consolidated = TRUE]

\* The loop of consolidate_memories from position i of the fetched rows.
\* rows: the episodic table as the sweep's own connection sees it (its
\* UPDATEs pending); sem: the committed semantic table; locked: the sweep's
\* connection holds the write lock of the database file, which it takes with
\* its first UPDATE and keeps until commit.  remember_semantic writes through
\* a second connection: it commits at once when the file is not locked and
\* fails with "database is locked" when it is, which ends the sweep before
\* its commit, so the pending UPDATEs are rolled back.
RECURSIVE ConsolidateLoop(_, _, _, _, _, _, _)
ConsolidateLoop(order, i, committed, rows, sem, locked, t) ==
  IF i > Len(order)
    THEN [raised |-> FALSE, rows |-> rows, sem |-> sem]
    ELSE LET memory_id == order[i]
             m == committed[memory_id]
             high == m.importance_score > HighImportance
         IN  IF high /\ locked
               THEN [raised |-> TRUE, rows |-> committed, sem |-> sem]
               ELSE ConsolidateLoop(order, i + 1, committed,
                      MarkConsolidated(rows, memory_id),
                      IF high
                        THEN remember_semantic(sem, SemanticKey(memory_id),
                               m.content, m.importance_score, memory_id, t)
                        ELSE sem,
                      TRUE, t)

\* consolidate_memories(days_threshold) with the rows fetched in `order`;
\* while a connection left open keeps the write lock, the first write of the
\* sweep fails, be it the remember_semantic or the UPDATE of the first row
consolidate_memories(order) ==
  IF Locked /\ order # <<>>
    THEN [raised |-> TRUE, rows |-> episodic_memories,
          sem |-> semantic_memories]
    ELSE ConsolidateLoop(order, 1, episodic_memories, episodic_memories,
                         semantic_memories, FALSE, now)

\* an operator triggers a consolidation sweep; `last` keeps the ids of the
\* rows the sweep fetched
Consolidate(thresholds) ==
  \E days_threshold \in thresholds :
    LET cutoff == CutoffIso(now, tz, days_threshold)
        ids == ToConsolidate(episodic_memories, cutoff)
    IN  \E order \in ByImportance(episodic_memories, ids) :
          LET r == consolidate_memories(order)
          IN  /\ WithinAccessBound(r.sem)
              /\ episodic_memories' = r.rows
              /\ semantic_memories' = r.sem
              /\ last' = [op |-> "consolidate_memories",
                          args |-> [days_threshold |-> days_threshold],
                          result |-> ids, raised |-> r.raised]
              /\ IF ~r.raised THEN Closed
                 ELSE IF Locked THEN LeftOpen ELSE LeftLocking
              /\ UNCHANGED <<other_tables, media_sequence, media_dir>>
              /\ UNCHANGED <<sqlite_sequence, now, tz, running, sona>>

\* ---------------------------------------------------------- episodic read
\* " AND relationship_context LIKE ?" with f"%persona:{persona}%"
PersonaFilter(row, persona) ==
  Like(row.relationship_context, Wrap(PersonaKey \o persona))

\* "tags LIKE ?" joined by OR, with f"%{tag}%" for each tag
TagConditions(row, tags) ==
  \E k \in DOMAIN tags : Like(row.tags, Wrap(tags[k]))

\* the WHERE clause recall_episodic builds; days_back 0 stands for None too,
\* `if days_back:` treats both alike
EpisodicWhere(rows, min_importance, tags, days_back, persona) ==
  {i \in DOMAIN rows :
     /\ rows[i].importance_score >= min_importance
     /\ Given(persona) => PersonaFilter(rows[i], persona)
     /\ days_back # 0 =>
          ~TextLess(rows[i].timestamp, CutoffIso(now, tz, days_back))
     /\ tags # <<>> => TagConditions(rows[i], tags)}

\* the order with the older row first among rows of one importance
OlderFirst(a, b) ==
  \/ a.importance_score > b.importance_score
  \/ /\ a.importance_score = b.importance_score
     /\ ~TextLess(b.timestamp, a.timestamp)

\* row a may come before row b under
\* ORDER BY importance_score DESC, timestamp DESC
RankedBefore(a, b) ==
  \/ a.importance_score > b.importance_score
  \/ /\ a.importance_score = b.importance_score
     /\ ~TextLess(a.timestamp, b.timestamp)

\* the order the ORDER BY of recall_episodic returns the rows of ids in
RECURSIVE ByRank(_, _)
ByRank(rows, ids) ==
  IF ids = {} THEN {<<>>}
  ELSE UNION {{<<i>> \o o : o \in ByRank(rows, ids \ {i})} :
                i \in {i \in ids :
                         \A j \in ids \ {i} :
                           /\ RankedBefore(rows[i], rows[j])
                           /\ RankedBefore(rows[j], rows[i])
                                => TiedBefore(i, j)}}

\* the results recall_episodic can return: the ids of the returned dicts
recall_episodic(limit, min_importance, tags, days_back, persona) ==
  LET ids == EpisodicWhere(episodic_memories, min_importance, tags,
                           days_back, persona)
  IN  {Take(o, limit) : o \in ByRank(episodic_memories, ids)}

\* a caller recalls episodic memories
RecallEpisodic(limits, importances, taglists, windows, personas) ==
  \E limit \in limits, min_importance \in importances, tags \in taglists,
     days_back \in windows, persona \in personas :
    \E result \in recall_episodic(limit, min_importance, tags, days_back,
                                  persona) :
      /\ last' = [op |-> "recall_episodic",
                  args |-> [limit |-> limit, min_importance |-> min_importance,
                            tags |-> tags, days_back |-> days_back,
                            persona |-> persona],
                  result |-> result, raised |-> FALSE]
      /\ Closed
      /\ UNCHANGED <<other_tables, media_sequence, media_dir>>
      /\ UNCHANGED <<episodic_memories, semantic_memories, sqlite_sequence,
                     now, tz, running, sona>>

\* ---------------------------------------------------------- semantic read
\* the UPDATE of recall_semantic written without its increment: only
\* last_accessed is set
TouchSemantic(table, key, t) ==
  {IF r.key = key THEN [r EXCEPT !.last_accessed = CurrentTimestamp(t)]
   ELSE r : r \in table}

\* UPDATE semantic_memories SET last_accessed = CURRENT_TIMESTAMP,
\* access_count = access_count + 1 WHERE key = ?
AccessSemantic(table, key, t) ==
  {IF r.key = key
     THEN [r EXCEPT !.access_count = @ + 1,
                    !.last_accessed = CurrentTimestamp(t)]
     ELSE r : r \in table}

\* recall_semantic(key) under `if key:`: the row read, then the UPDATE, and
\* the dict of the row as it was read, returned without conn.close(); the
\* UPDATE fails while the database is locked.  The empty dict {} and no
\* write when no row has the key: only this path reaches conn.close().
recall_semantic(table, key, t) ==
  IF key \in SemanticKeys(table)
    THEN IF Locked
           THEN [found |-> FALSE, fact |-> <<>>, table |-> table,
                 raised |-> TRUE, open |-> TRUE]
           ELSE LET row == SemanticRow(table, key)
                IN  [found |-> TRUE,
                     fact |-> [key |-> row.key, value |-> row.value,
                               confidence |-> row.confidence,
                               last_accessed |-> row.last_accessed,
                               access_count |-> row.access_count],
                     table |-> AccessSemantic(table, key, t),
                     raised |-> FALSE, open |-> TRUE]
    ELSE [found |-> FALSE, fact |-> <<>>, table |-> table,
          raised |-> FALSE, open |-> FALSE]

\* row a may come before row b under
\* ORDER BY access_count DESC, last_accessed DESC
UsedBefore(a, b) ==
  \/ a.access_count > b.access_count
  \/ /\ a.access_count = b.access_count
     /\ ~TextLess(a.last_accessed, b.last_accessed)

\* recall_semantic() under `else:` (no key, or an empty one): the dicts the
\* SELECT of all rows can give, each the keys in the order of the rows with
\* the value and confidence of each; nothing is written, and the dict is
\* returned without conn.close()
recall_all_semantic(table) ==
  {[keys |-> [i \in DOMAIN o |-> o[i].key],
    facts |-> [k \in SemanticKeys(table) |->
                 [value |-> SemanticRow(table, k).value,
                  confidence |-> SemanticRow(table, k).confidence]]] :
     o \in {o \in [1..Cardinality(table) -> table] :
              /\ \A i, j \in DOMAIN o : i # j => o[i] # o[j]
              /\ \A i, j \in DOMAIN o : i < j => UsedBefore(o[i], o[j])}}

\* a caller recalls one semantic fact, or all of them with no key
RecallSemantic(keys) ==
  \E key \in keys :
    LET r == IF Given(key)
               THEN recall_semantic(semantic_memories, key, now)
               ELSE [found |-> FALSE, fact |-> NULL,
                     table |-> semantic_memories,
                     raised |-> FALSE, open |-> TRUE]
    IN  /\ WithinAccessBound(r.table)
        /\ semantic_memories' = r.table
        /\ \E all \in (IF Given(key) THEN {NULL}
                        ELSE recall_all_semantic(semantic_memories)) :
             last' = [op |-> "recall_semantic", args |-> [key |-> key],
                      result |-> IF Given(key) THEN r.fact ELSE all,
                      raised |-> r.raised]
        /\ IF r.open THEN LeftOpen ELSE Closed
        /\ UNCHANGED <<other_tables, media_sequence, media_dir>>
        /\ UNCHANGED <<episodic_memories, sqlite_sequence, now, tz, running, sona>>

\* a caller stores a semantic fact
RememberSemantic(keys, values, confidences) ==
  \E key \in keys, value \in values, confidence \in confidences :
    /\ semantic_memories' =
         IF Locked THEN semantic_memories
         ELSE remember_semantic(semantic_memories, key, value, confidence,
                                0, now)
    /\ WithinAccessBound(semantic_memories')
    /\ last' = [op |-> "remember_semantic",
                args |-> [key |-> key, value |-> value,
                          confidence |-> confidence],
                result |-> NULL, raised |-> Locked]
    /\ IF Locked THEN LeftOpen ELSE Closed
    /\ UNCHANGED <<other_tables, media_sequence, media_dir>>
    /\ UNCHANGED <<episodic_memories, sqlite_sequence, now, tz, running, sona>>

\* ------------------------------------------------------ association index
\* the persona find_related_memories filters by: the argument when given,
\* else target_persona.split("persona:")[-1].split("|")[0].strip() when the
\* target's relationship_context holds "persona:", else none
RelatedPersona(persona, target_persona) ==
  IF ~Given(persona) /\ Given(target_persona)
       /\ Contains(target_persona, PersonaKey)
    THEN Strip(BeforeFirst(AfterLast(target_persona, PersonaKey), <<"|">>))
    ELSE persona

\* set(target_content.lower().split()[:5])
Keywords(target_content) == Range(Take(Split(Lower(target_content)), 5))

\* the results find_related_memories can return; raised when the SQL text is
\* malformed: with no tags and no keyword the condition list is "()".  Only
\* the path through the second SELECT reaches conn.close().
find_related_memories(memory_id, limit, persona) ==
  IF memory_id \notin DOMAIN episodic_memories
    THEN {[raised |-> FALSE, rows |-> <<>>, open |-> TRUE]}
    ELSE
      LET target == episodic_memories[memory_id]
          target_tags == IF target.tags # NULL THEN JsonLoads(target.tags)
                         ELSE <<>>
          keywords == Keywords(target.content)
          p == RelatedPersona(persona, target.relationship_context)
          ids == {i \in DOMAIN episodic_memories :
                    /\ i # memory_id
                    /\ IF target_tags # <<>>
                         THEN TagConditions(episodic_memories[i], target_tags)
                         ELSE \E kw \in keywords :
                                Like(episodic_memories[i].content, Wrap(kw))
                    /\ Given(p) => PersonaFilter(episodic_memories[i], p)}
      IN  IF target_tags = <<>> /\ keywords = {}
            THEN {[raised |-> TRUE, rows |-> <<>>, open |-> TRUE]}
            ELSE {[raised |-> FALSE, rows |-> Take(o, limit),
                   open |-> FALSE] :
                    o \in ByImportance(episodic_memories, ids)}

\* a caller asks for the memories related to one memory
FindRelated(ids, limits, personas) ==
  \E memory_id \in ids, limit \in limits, persona \in personas :
    \E r \in find_related_memories(memory_id, limit, persona) :
      /\ last' = [op |-> "find_related_memories",
                  args |-> [memory_id |-> memory_id, limit |-> limit,
                            persona |-> persona],
                  result |-> r.rows, raised |-> r.raised]
      /\ IF r.open THEN LeftOpen ELSE Closed
      /\ UNCHANGED <<other_tables, media_sequence, media_dir>>
      /\ UNCHANGED <<episodic_memories, semantic_memories, sqlite_sequence,
                     now, tz, running, sona>>

\* ------------------------------------------------------------- the agent
\* common_words of _extract_topics
CommonWords ==
  {<<"t","h","e">>,
   <<"a">>,
   <<"a","n">>,
   <<"a","n","d">>,
   <<"o","r">>,
   <<"b","u","t">>,
   <<"i","n">>,
   <<"o","n">>,
   <<"a","t">>,
   <<"t","o">>,
   <<"f","o","r">>,
   <<"o","f">>,
   <<"w","i","t","h">>,
   <<"b","y">>,
   <<"i","s">>,
   <<"a","r","e">>,
   <<"w","a","s">>,
   <<"w","e","r","e">>,
   <<"b","e">>,
   <<"b","e","e","n">>,
   <<"h","a","v","e">>,
   <<"h","a","s">>,
   <<"h","a","d">>,
   <<"d","o">>,
   <<"d","o","e","s">>,
   <<"d","i","d">>,
   <<"w","i","l","l">>,
   <<"w","o","u","l","d">>,
   <<"c","o","u","l","d">>,
   <<"s","h","o","u","l","d">>,
   <<"m","a","y">>,
   <<"m","i","g","h","t">>,
   <<"m","u","s","t">>,
   <<"c","a","n">>}

\* _extract_topics: the first 5 words of text.lower().split() that are
\* longer than 3 characters and not common words
IsTopic(w) == Len(w) > 3 /\ w \notin CommonWords

ExtractTopics(text) == Take(SelectSeq(Split(Lower(text)), IsTopic), 5)

\* _calculate_importance, in tenths: 0.5, + 0.1 for a question mark,
\* + 0.2 * |context.get("user_sentiment", 0.0)| (analyze_input puts no such
\* key in context, so this term is 0), + 0.1 for an input over 100
\* characters, at most 1.0
CalculateImportance(user_input) ==
  LET importance == 5 + (IF Contains(user_input, <<"?">>) THEN 1 ELSE 0)
                      + (IF Len(user_input) > 100 THEN 1 ELSE 0)
  IN  IF importance < 10 THEN importance ELSE 10

\* f"User: {user_input}\nAssistant: {response}"
InteractionContent(user_input, response) ==
  <<"U","s","e","r",":"," ">> \o user_input \o <<"\n","A","s","s","i","s","t","a","n","t",":"," ">> \o response

TextIAm == <<"i"," ","a","m">>

TextIm == <<"i","'","m">>

TextILike == <<"i"," ","l","i","k","e">>

TextUserTrait == <<"u","s","e","r","_","t","r","a","i","t">>

TextUserPreference == <<"u","s","e","r","_","p","r","e","f","e","r","e","n","c","e">>

\* the facts _extract_and_store_facts finds: <<fact_type, fact_value>>
ExtractFacts(user_input) ==
  LET low == Lower(user_input)
      trait == Strip(BeforeFirst(AfterLast(AfterLast(low, TextIAm), TextIm),
                                 <<".">>))
      preference == Strip(BeforeFirst(AfterLast(low, TextILike), <<".">>))
  IN  (IF (Contains(low, TextIAm) \/ Contains(low, TextIm)) /\ Len(trait) > 5
         THEN <<<<TextUserTrait, trait>>>> ELSE <<>>)
      \o (IF Contains(low, TextILike) /\ Len(preference) > 3
            THEN <<<<TextUserPreference, preference>>>> ELSE <<>>)

\* hash(fact_value) % 10000: Python salts str hashes per process, so the
\* number is any of the values below
HashValues == {7}

\* f"{fact_type}_{hash(fact_value) % 10000}"
FactKey(fact_type, h) == fact_type \o <<"_">> \o IntToStr(h)

\* the loop of _extract_and_store_facts over facts[i..]
RECURSIVE StoreFacts(_, _, _, _, _)
StoreFacts(table, facts, i, h, memory_id) ==
  IF i > Len(facts) THEN table
  ELSE StoreFacts(remember_semantic(table, FactKey(facts[i][1], h),
                                    facts[i][2], 7, memory_id, now),
                  facts, i + 1, h, memory_id)

\* the reply of the language model
Response == <<"o","k">>

\* store_memory: the turn is stored under the agent's persona, then its
\* facts; when remember_episodic raises, nothing follows.  No media is
\* attached to the turn.
StoreMemory(inputs) ==
  \E user_input \in inputs, h \in HashValues :
    LET r == remember_episodic(InteractionContent(user_input, Response),
                               CalculateImportance(user_input),
                               ExtractTopics(user_input),
                               RelationshipContext(sona))
    IN  /\ episodic_memories' = r.rows
        /\ sqlite_sequence' = r.seq
        /\ semantic_memories' =
             IF r.raised THEN semantic_memories
             ELSE StoreFacts(semantic_memories, ExtractFacts(user_input), 1,
                             h, r.id)
        /\ WithinAccessBound(semantic_memories')
        /\ last' = [op |-> "store_memory",
                    args |-> [user_input |-> user_input, persona |-> sona],
                    result |-> r.id, raised |-> r.raised]
        /\ IF ~r.raised THEN Closed
           ELSE IF Locked THEN LeftOpen ELSE LeftLocking
        /\ UNCHANGED <<other_tables, media_sequence, media_dir>>
        /\ UNCHANGED <<now, tz, running, sona>>

\* the user picks another persona: the agent is rebuilt from its sona file
SwitchSona ==
  /\ sona' \in PersonaNames \ {sona}
  /\ UNCHANGED <<other_tables, media_sequence, media_dir, connections>>
  /\ UNCHANGED <<episodic_memories, semantic_memories, sqlite_sequence, now,
                 tz, running, last>>

\* the lists joined without the check of seen_ids
Concatenate(list, i, seen_ids) == SubSeq(list, i, Len(list))

\* the loop "for mem in topic_memories + recent_memories" of
\* retrieve_memories: the ids of list[i..] not seen before, in order
RECURSIVE Deduplicate(_, _, _)
Deduplicate(list, i, seen_ids) ==
  IF i > Len(list) THEN <<>>
  ELSE IF list[i] \in seen_ids THEN Deduplicate(list, i + 1, seen_ids)
  ELSE <<list[i]>> \o Deduplicate(list, i + 1, seen_ids \cup {list[i]})

\* the loop "for topic in topics[:3]" of retrieve_memories from position i:
\* each recall_semantic writes before the next one reads, and the loop ends
\* where one raises; open: a recall_semantic left its connection open
RECURSIVE SemanticForTopics(_, _, _, _, _)
SemanticForTopics(table, topics, i, found, open) ==
  IF i > Len(topics)
    THEN [table |-> table, semantic |-> found, raised |-> FALSE,
          open |-> open]
  ELSE LET r == recall_semantic(table, topics[i], now)
       IN  IF r.raised
             THEN [table |-> table, semantic |-> found, raised |-> TRUE,
                   open |-> TRUE]
             ELSE SemanticForTopics(r.table, topics, i + 1,
                    IF r.found
                      THEN [k \in DOMAIN found \cup {topics[i]} |->
                              IF k = topics[i] THEN r.fact ELSE found[k]]
                      ELSE found,
                    open \/ r.open)

\* the related lookup with the limit of 3 it had before
RelatedUpToThree(topic_memories) ==
  IF topic_memories # <<>>
    THEN find_related_memories(topic_memories[1], 3, sona)
    ELSE {[raised |-> FALSE, rows |-> <<>>, open |-> FALSE]}

\* "if topic_memories: related = find_related_memories(topic_memories[0]
\* ["id"], limit=2, persona=persona_name)", else related = []
RelatedFor(topic_memories) ==
  IF topic_memories # <<>>
    THEN find_related_memories(topic_memories[1], 2, sona)
    ELSE {[raised |-> FALSE, rows |-> <<>>, open |-> FALSE]}

\* the bundles retrieve_memories can build for a user input; table is the
\* semantic table after the reads, which write the access statistics.  When
\* a recall_semantic raises, the related lookup is not reached.
retrieve_memories(user_input) ==
  LET topics == ExtractTopics(user_input)
      passA == IF topics # <<>>
                 THEN recall_episodic(3, 3, Take(topics, 3), 30, sona)
                 ELSE {<<>>}
      passB == recall_episodic(2, 5, <<>>, 7, sona)
      sem == SemanticForTopics(semantic_memories, Take(topics, 3), 1, <<>>,
                               FALSE)
  IN  UNION {
        {[raised |-> sem.raised \/ rel.raised,
          open |-> sem.open \/ rel.open,
          table |-> sem.table,
          topic_memories |-> topic_memories,
          recent_memories |-> recent_memories,
          episodic |-> Take(Deduplicate(topic_memories \o recent_memories,
                                        1, {}), 5),
          semantic |-> sem.semantic,
          related |-> rel.rows] :
           recent_memories \in passB,
           rel \in (IF sem.raised
                      THEN {[raised |-> FALSE, rows |-> <<>>, open |-> FALSE]}
                      ELSE RelatedFor(topic_memories))} :
        topic_memories \in passA}

\* a turn of the agent reaches retrieve_memories
RetrieveMemories(inputs) ==
  \E user_input \in inputs :
    \E b \in retrieve_memories(user_input) :
      /\ WithinAccessBound(b.table)
      /\ semantic_memories' = b.table
      /\ last' = [op |-> "retrieve_memories",
                  args |-> [user_input |-> user_input, persona |-> sona],
                  result |-> [topic_memories |-> b.topic_memories,
                              recent_memories |-> b.recent_memories,
                              episodic |-> b.episodic,
                              semantic |-> b.semantic,
                              related |-> b.related],
                  raised |-> b.raised]
      /\ IF b.open THEN LeftOpen ELSE Closed
      /\ UNCHANGED <<other_tables, media_sequence, media_dir>>
      /\ UNCHANGED <<episodic_memories, sqlite_sequence, now, tz, running, sona>>

\* get_proactive_suggestions: which suggestions are made.  The emotional
\* patterns are empty: the agent stores no emotional memory.
get_proactive_suggestions ==
  {[celebrate |-> Cardinality(DOMAIN episodic_memories) % 100 = 0,
    revisit |-> recent_memories # <<>>] :
     recent_memories \in recall_episodic(5, 7, <<>>, 7, NULL)}

\* check_proactivity of a turn asks the companion for suggestions
ProactiveSuggestions ==
  \E suggestions \in get_proactive_suggestions :
    /\ last' = [op |-> "get_proactive_suggestions", args |-> [persona |-> sona],
                result |-> suggestions, raised |-> FALSE]
    /\ Closed
    /\ UNCHANGED <<other_tables, media_sequence, media_dir>>
    /\ UNCHANGED <<episodic_memories, semantic_memories, sqlite_sequence,
                   now, tz, running, sona>>

\* the Memories page: recall_episodic(limit=50, min_importance=0.0,
\* days_back=days_value), then the rows whose content holds the search text
MemoriesPage(windows, queries) ==
  \E days_value \in windows, search_query \in queries :
    \E memories \in recall_episodic(50, 0, <<>>, days_value, NULL) :
      /\ last' = [op |-> "memories_page",
                  args |-> [days_back |-> days_value,
                            search_query |-> search_query, persona |-> sona],
                  result |->
                    IF search_query # <<>>
                      THEN SelectSeq(memories,
                             LAMBDA m : Contains(
                               Lower(episodic_memories[m].content),
                               Lower(search_query)))
                      ELSE memories,
                  raised |-> FALSE]
      /\ Closed
      /\ UNCHANGED <<other_tables, media_sequence, media_dir>>
      /\ UNCHANGED <<episodic_memories, semantic_memories, sqlite_sequence,
                     now, tz, running, sona>>

\* ------------------------------------------------- the other store writes
\* remember_emotion: one row appended; memory_id 0 is NULL
remember_emotion(table, emotion_type, intensity, memory_id) ==
  Append(table, [emotion_type |-> emotion_type, intensity |-> intensity,
                 memory_id |-> memory_id])

\* a caller stores an emotional memory
RememberEmotion(types, intensities, ids) ==
  \E emotion_type \in types, intensity \in intensities, memory_id \in ids :
    /\ emotional_memories' =
         IF Locked THEN emotional_memories
         ELSE remember_emotion(emotional_memories, emotion_type, intensity,
                               memory_id)
    /\ last' = [op |-> "remember_emotion",
                args |-> [emotion_type |-> emotion_type,
                          intensity |-> intensity, memory_id |-> memory_id],
                result |-> NULL, raised |-> Locked]
    /\ IF Locked THEN LeftOpen ELSE Closed
    /\ UNCHANGED <<episodic_memories, semantic_memories, sqlite_sequence, now,
                   tz, running, sona, media_memories, memory_associations,
                   relationship_milestones, user_preferences,
                   conversation_patterns, media_sequence, media_dir>>

\* add_milestone: one row appended, associated_memories as JSON text or NULL
add_milestone(table, milestone_type, description, significance, associated) ==
  Append(table, [milestone_type |-> milestone_type,
                 description |-> description,
                 significance |-> significance,
                 associated_memories |->
                   IF associated # <<>>
                     THEN JsonDumps(associated) ELSE NULL])

\* a caller records a relationship milestone
AddMilestone(types, descriptions, significances, lists) ==
  \E milestone_type \in types, description \in descriptions,
     significance \in significances, associated_memories \in lists :
    /\ relationship_milestones' =
         IF Locked THEN relationship_milestones
         ELSE add_milestone(relationship_milestones, milestone_type,
                            description, significance, associated_memories)
    /\ last' = [op |-> "add_milestone",
                args |-> [milestone_type |-> milestone_type,
                          description |-> description],
                result |-> NULL, raised |-> Locked]
    /\ IF Locked THEN LeftOpen ELSE Closed
    /\ UNCHANGED <<episodic_memories, semantic_memories, sqlite_sequence, now,
                   tz, running, sona, emotional_memories, media_memories,
                   memory_associations, user_preferences,
                   conversation_patterns, media_sequence, media_dir>>

\* update_preference: INSERT OR REPLACE under PRIMARY KEY (category,
\* preference_key)
update_preference(table, category, key, value, confidence, t) ==
  {r \in table : ~(r.category = category /\ r.preference_key = key)}
    \cup {[category |-> category, preference_key |-> key,
           preference_value |-> value, confidence |-> confidence,
           last_updated |-> CurrentTimestamp(t)]}

\* a caller sets a user preference
UpdatePreference(categories, keys, values, confidences) ==
  \E category \in categories, key \in keys, value \in values,
     confidence \in confidences :
    /\ user_preferences' =
         IF Locked THEN user_preferences
         ELSE update_preference(user_preferences, category, key, value,
                                confidence, now)
    /\ last' = [op |-> "update_preference",
                args |-> [category |-> category, key |-> key,
                          value |-> value],
                result |-> NULL, raised |-> Locked]
    /\ IF Locked THEN LeftOpen ELSE Closed
    /\ UNCHANGED <<episodic_memories, semantic_memories, sqlite_sequence, now,
                   tz, running, sona, emotional_memories, media_memories,
                   memory_associations, relationship_milestones,
                   conversation_patterns, media_sequence, media_dir>>

\* ------------------------------------------------------------------ media
\* os.path.basename(path)
Basename(path) == AfterLast(path, <<"/">>)

\* Path(file_path).suffix: from the last dot of the file name, "" without one
Suffix(path) ==
  IF Contains(Basename(path), <<".">>)
    THEN <<".">> \o AfterLast(Basename(path), <<".">>)
    ELSE <<>>

TypeImage == <<"i","m","a","g","e">>

TypeAudio == <<"a","u","d","i","o">>

\* dest_dir: "images" for an image, "audio" for audio, else the media type
\* itself as a directory name
DestDir(media_type) ==
  IF media_type = TypeImage THEN DirImages
  ELSE IF media_type = TypeAudio THEN DirAudio
  ELSE media_type

\* the name with the whole hash in it
FullHashFilename(memory_id, file_hash, file_ext) ==
  IntToStr(memory_id) \o <<"_">> \o file_hash \o file_ext

\* f"{memory_id}_{file_hash[:8]}{file_ext}"
SafeFilename(memory_id, file_hash, file_ext) ==
  IntToStr(memory_id) \o <<"_">> \o Take(file_hash, 8) \o file_ext

\* f"thumb_{os.path.basename(image_path)}"
ThumbnailFilename(image_name) == <<"t","h","u","m","b","_">> \o image_name

\* self.media_dir: the directory "media" next to the database file
MediaRoot == <<"/","d","/","m","e","d","i","a">>

\* os.path.join(a, b): an absolute b replaces a
PathJoin(a, b) == IF StartsWith(b, <<"/">>) THEN b ELSE a \o <<"/">> \o b

\* os.path.join(dest_dir, safe_filename) as the text the row stores, for a
\* path [dir, name] under self.media_dir
PathText(path) == PathJoin(PathJoin(MediaRoot, path.dir), path.name)

\* remember_media for a source file [path, hash, exists]: the file copied
\* into the media directory, a thumbnail written for an image when the
\* imaging library is there (pil), the row inserted.  A source file that does
\* not exist fails the hash and nothing is written; a source file that is
\* the destination itself fails the copy (shutil.SameFileError) after the
\* destination directory was made.  While the database is locked the INSERT
\* fails after the files were written.  The failures leave the connection
\* open, which is opened first.
remember_media(memory_id, media_type, file, pil) ==
  IF ~file.exists
    THEN [raised |-> TRUE, id |-> 0, table |-> media_memories,
          dir |-> media_dir]
  ELSE IF file.path
            = PathText([dir |-> DestDir(media_type),
                        name |-> SafeFilename(memory_id, file.hash,
                                              Suffix(file.path))])
    THEN [raised |-> TRUE, id |-> 0, table |-> media_memories,
          dir |-> [media_dir EXCEPT !.dirs = @ \cup {DestDir(media_type)}]]
    ELSE
      LET dest_dir == DestDir(media_type)
          name == SafeFilename(memory_id, file.hash, Suffix(file.path))
          dest_path == [dir |-> dest_dir, name |-> name]
          thumbnail == media_type = TypeImage /\ pil
          thumbnail_path ==
            IF thumbnail
              THEN [dir |-> DirThumbnails, name |-> ThumbnailFilename(name)]
              ELSE NULL
          row == [id |-> media_sequence + 1,
                  memory_id |-> memory_id, media_type |-> media_type,
                  file_path |-> dest_path, file_hash |-> file.hash,
                  thumbnail_path |-> thumbnail_path]
      IN  [raised |-> Locked,
           id |-> IF Locked THEN 0 ELSE media_sequence + 1,
           table |-> IF Locked THEN media_memories
                     ELSE Append(media_memories, row),
           dir |-> [dirs |-> media_dir.dirs \cup {dest_dir},
                    files |-> media_dir.files \cup {dest_path}
                                \cup (IF thumbnail
                                        THEN {thumbnail_path} ELSE {})]]

\* a caller attaches a media file to a memory
RememberMedia(ids, types, files) ==
  \E memory_id \in ids, media_type \in types, file \in files,
     pil \in BOOLEAN :
    LET r == remember_media(memory_id, media_type, file, pil)
    IN  /\ media_memories' = r.table
        /\ media_dir' = r.dir
        /\ media_sequence' = IF r.raised THEN media_sequence ELSE r.id
        /\ last' = [op |-> "remember_media",
                    args |-> [memory_id |-> memory_id,
                              media_type |-> media_type, file |-> file],
                    result |-> r.id, raised |-> r.raised]
        /\ IF r.raised THEN LeftOpen ELSE Closed
        /\ UNCHANGED <<episodic_memories, semantic_memories, sqlite_sequence,
                       now, tz, running, sona, emotional_memories, memory_associations,
                       relationship_milestones, user_preferences,
                       conversation_patterns>>

\* -------------------------------------------------------------- retention
\* the SELECT without its condition on importance_score
OldOfAnyImportance(rows, cutoff, min_importance) ==
  {i \in DOMAIN rows : TextLess(rows[i].timestamp, cutoff)}

\* SELECT id FROM episodic_memories WHERE timestamp < ? AND
\* importance_score < ?
OldMemories(rows, cutoff, min_importance) ==
  {i \in DOMAIN rows :
     /\ TextLess(rows[i].timestamp, cutoff)
     /\ rows[i].importance_score < min_importance}

\* the cascade left out: no row of the table is deleted
DeleteNoRow(table, ids) == table

\* DELETE FROM media_memories / emotional_memories WHERE memory_id IN (ids):
\* the rows the DELETE leaves
DeleteByMemoryId(table, ids) ==
  SelectSeq(table, LAMBDA r : r.memory_id \notin ids)

\* clear_old_memories: the early return with four zero counts when no row is
\* selected, which leaves the connection open; else the cascade in one
\* transaction, each count the rowcount of its DELETE.  While the database
\* is locked the first DELETE fails.
clear_old_memories(days_old, min_importance) ==
  LET cutoff == CutoffIso(now, tz, days_old)
      memory_ids == OldMemories(episodic_memories, cutoff, min_importance)
      associations == {a \in memory_associations :
                         a.memory_id_1 \notin memory_ids
                           /\ a.memory_id_2 \notin memory_ids}
      media == DeleteByMemoryId(media_memories, memory_ids)
      emotional == DeleteByMemoryId(emotional_memories, memory_ids)
      semantic == {r \in semantic_memories :
                     r.source_memory_id \notin memory_ids}
  IN  IF memory_ids = {} \/ Locked
        THEN [counts |-> [episodic |-> 0, semantic |-> 0, emotional |-> 0,
                          media |-> 0],
              raised |-> memory_ids # {},
              open |-> TRUE,
              episodic |-> episodic_memories,
              associations |-> memory_associations,
              media |-> media_memories,
              emotional |-> emotional_memories,
              semantic |-> semantic_memories]
        ELSE [raised |-> FALSE,
              open |-> FALSE,
              counts |->
                [episodic |-> Cardinality(memory_ids),
                 associations |-> Cardinality(memory_associations)
                                    - Cardinality(associations),
                 media |-> Len(media_memories) - Len(media),
                 emotional |-> Len(emotional_memories) - Len(emotional),
                 semantic |-> Cardinality(semantic_memories)
                                - Cardinality(semantic)],
              episodic |-> [i \in DOMAIN episodic_memories \ memory_ids |->
                              episodic_memories[i]],
              associations |-> associations,
              media |-> media,
              emotional |-> emotional,
              semantic |-> semantic]

\* the user cleans up old memories from the settings page
ClearOld(ages, importances) ==
  \E days_old \in ages, min_importance \in importances :
    LET r == clear_old_memories(days_old, min_importance)
    IN  /\ episodic_memories' = r.episodic
        /\ memory_associations' = r.associations
        /\ media_memories' = r.media
        /\ emotional_memories' = r.emotional
        /\ semantic_memories' = r.semantic
        /\ last' = [op |-> "clear_old_memories",
                    args |-> [days_old |-> days_old,
                              min_importance |-> min_importance],
                    result |-> r.counts, raised |-> r.raised]
        /\ IF r.open THEN LeftOpen ELSE Closed
        /\ UNCHANGED <<sqlite_sequence, now, tz, running, sona,
                       relationship_milestones, user_preferences,
                       conversation_patterns, media_sequence, media_dir>>

\* the media directory with the flag of clear_all_memories ignored
KeepMediaTree(dir, include_media) == dir

\* `if include_media:` shutil.rmtree(self.media_dir), then the directory and
\* its three subdirectories made again
RemoveMediaTree(dir, include_media) ==
  IF include_media THEN MediaDirs ELSE dir

\* clear_all_memories: the counts taken before the DELETEs, every table
\* emptied, and with include_media the media directory removed and made
\* again with its three subdirectories.  sqlite_sequence is not a table the
\* method deletes from: ids are not handed out again.  While the database
\* is locked the first DELETE fails and nothing is removed.
ClearAll(flags) ==
  \E include_media \in flags :
    /\ IF Locked
         THEN UNCHANGED <<other_tables, semantic_memories, episodic_memories,
                          media_dir>>
         ELSE /\ memory_associations' = {}
              /\ media_memories' = <<>>
              /\ emotional_memories' = <<>>
              /\ semantic_memories' = {}
              /\ conversation_patterns' = <<>>
              /\ relationship_milestones' = <<>>
              /\ user_preferences' = {}
              /\ episodic_memories' = <<>>
              /\ media_dir' = RemoveMediaTree(media_dir, include_media)
    /\ IF Locked THEN LeftOpen ELSE Closed
    /\ last' = [op |-> "clear_all_memories",
                args |-> [include_media |-> include_media],
                result |->
                  [episodic |-> Cardinality(DOMAIN episodic_memories),
                   semantic |-> Cardinality(semantic_memories),
                   emotional |-> Len(emotional_memories),
                   milestones |-> Len(relationship_milestones),
                   preferences |-> Cardinality(user_preferences),
                   patterns |-> Len(conversation_patterns),
                   associations |-> Cardinality(memory_associations),
                   media |-> Len(media_memories)],
                raised |-> Locked]
    /\ UNCHANGED <<sqlite_sequence, media_sequence, now, tz, running, sona>>

\* ---------------------------------------------------------- the behaviours
\* inputs of the store operations
NoText == <<>>

SomeText == <<"p","a","y">>

ContentInputs == {NULL, NoText, SomeText}

\* importance arguments, in tenths: -0.4, 0.7, 1.7
ImportanceInputs == {-4, 7, 17}

\* days_threshold arguments
ThresholdInputs == {0, 1}

\* offsets of local time from UTC, in ticks
ZoneInputs == {0}

\* the clients that call the store at the same time, each call on a
\* connection of its own
Clients == {"a", "b"}

\* a client between two calls
Idle ==
  [op |-> "none", pc |-> "idle", key |-> <<>>, value |-> <<>>, source |-> 0,
   before |-> {}, seen |-> 0, raised |-> FALSE]

\* no call and no sweep or cleanup in progress, the write lock free; `start`
\* is the committed store a sweep or cleanup found when it connected, `log`
\* the calls of the clients that ended since
NoneRunning ==
  [writer |-> "none", calls |-> [c \in Clients |-> Idle],
   sweep |-> [op |-> "none", pc |-> "idle", args |-> <<>>, order |-> <<>>,
              i |-> 1, marked |-> {}, raised |-> FALSE],
   start |-> [ep |-> <<>>, seq |-> 0, sem |-> {}, locked |-> FALSE],
   log |-> <<>>]

Init ==
  /\ running = NoneRunning
  /\ episodic_memories = <<>>
  /\ semantic_memories = {}
  /\ sqlite_sequence = 0
  /\ media_sequence = 0
  /\ now = 0
  /\ tz \in ZoneInputs
  /\ sona = Al
  /\ last = NoCall
  /\ emotional_memories = <<>>
  /\ media_memories = <<>>
  /\ memory_associations = {}
  /\ relationship_milestones = <<>>
  /\ user_preferences = {}
  /\ conversation_patterns = <<>>
  /\ media_dir = MediaDirs
  /\ connections = "none"

\* the episodic table under writes, the clock and consolidation sweeps
Next ==
  \/ /\ sqlite_sequence < MaxRows
     /\ RememberEpisodic(ContentInputs, ImportanceInputs, {<<>>},
                         {RelationshipContext(Al)})
  \/ Consolidate(ThresholdInputs)
  \/ Tick
  \/ Collect

Spec == Init /\ [][Next]_vars

\* media rows of the store that keeps media
MaxMedia == 2

\* a picture the user attaches: the caller's path, the SHA256 of the content
\* (9 of its 64 hex digits), and whether the file is there
Photo ==
  [path |-> <<"/","u","/","a",".","p","n","g">>,
   hash |-> <<"0","1","2","3","4","5","6","7","8">>,
   exists |-> TRUE]

TypeVideo == <<"v","i","d","e","o">>

\* min_importance arguments of clear_old_memories, in tenths: 0.3 as the
\* settings page passes, 1.0
MinImportanceInputs == {3, 10}

\* the rows of the media, emotional, milestone and preference tables
Attached ==
  Len(media_memories) + Len(emotional_memories)
    + Len(relationship_milestones) + Cardinality(user_preferences)

\* the store under its writers, consolidation and the two retention
\* operations
NextRetention ==
  \/ /\ sqlite_sequence < MaxOldRows
     /\ RememberEpisodic({SomeText}, {2, 8}, {<<>>}, {RelationshipContext(Al)})
  \/ /\ Attached < MaxAttached /\ media_sequence < MaxAttached
     /\ RememberMedia(1..MaxOldRows, {TypeImage, TypeVideo},
                      {Photo, [Photo EXCEPT !.exists = FALSE]})
  \/ /\ Attached < MaxAttached
     /\ RememberEmotion({<<"j","o","y">>}, {5}, 0..1)
  \/ /\ Attached < MaxAttached
     /\ AddMilestone({SomeText}, {SomeText}, {5}, {<<>>})
  \/ /\ Attached < MaxAttached
     /\ UpdatePreference({SomeText}, {SomeText}, {SomeText}, {10})
  \/ Consolidate({0})
  \/ ClearOld(ThresholdInputs, MinImportanceInputs)
  \/ ClearAll(BOOLEAN)
  \/ Tick
  \/ Collect

SpecRetention == Init /\ [][NextRetention]_vars

\* values of semantic facts
OtherText == <<"d","u","e">>

\* the semantic table under upserts and reads, by key and with no key
NextSemantic ==
  \/ RememberSemantic({FactKey(TextUserTrait, 7),
                       FactKey(TextUserPreference, 7)},
                      {SomeText, OtherText}, {7, 10})
  \/ RecallSemantic({FactKey(TextUserTrait, 7),
                     FactKey(TextUserPreference, 7), NoText, NULL})
  \/ Tick
  \/ Collect

SpecSemantic == Init /\ [][NextSemantic]_vars

\* inputs of the turns of a conversation
InputIAm == <<"i"," ","a","m"," ","a"," ","n","u","r","s","e","?">>

InputTrait == <<"u","s","e","r","_","t","r","a","i","t","_","7"," ",
                "n","u","r","s","e","?">>

UserInputs == {InputIAm, InputTrait}

\* the agent and the other readers of the store, under changing personas
NextPersona ==
  \/ SwitchSona
  \/ /\ sqlite_sequence < MaxRows
     /\ StoreMemory({InputIAm})
  \/ /\ sqlite_sequence < MaxRows
     /\ RememberEpisodic({InteractionContent(InputIAm, Response)}, {8},
                         {ExtractTopics(InputIAm)}, {NoText})
  \/ RecallEpisodic({10}, {0}, {ExtractTopics(InputIAm)}, {7}, PersonaNames)
  \/ FindRelated(1..MaxRows, {5}, {NULL, Al})
  \/ RetrieveMemories(UserInputs)
  \/ RememberSemantic({FactKey(TextUserTrait, 7)}, {SomeText}, {10})
  \/ RecallSemantic({FactKey(TextUserTrait, 7)})
  \/ ProactiveSuggestions
  \/ MemoriesPage({30}, {NoText})
  \/ Collect

SpecPersona == Init /\ [][NextPersona]_vars

\* a turn whose fourth topic is the key of a fact
InputLong ==
  <<"n","u","r","s","e","?"," ","n","u","r","s","e","?"," ",
    "n","u","r","s","e","?"," ","u","s","e","r","_","t","r","a","i","t",
    "_","7">>

\* the memories stored without tags
Untagged == {i \in DOMAIN episodic_memories : episodic_memories[i].tags = NULL}

\* the agent's retrieval over memories of one persona: tagged with the topic
\* or not, more and less important, written at different times
NextRanking ==
  \/ /\ sqlite_sequence < MaxRanked
     /\ RememberEpisodic({SomeText}, {4, 8}, {ExtractTopics(InputIAm)},
                         {RelationshipContext(Al)})
  \/ /\ sqlite_sequence < MaxRanked
     /\ Cardinality(Untagged) < MaxUntagged
     /\ RememberEpisodic({SomeText}, {8}, {<<>>}, {RelationshipContext(Al)})
  \/ /\ semantic_memories = {}
     /\ RememberSemantic({FactKey(TextUserTrait, 7)}, {SomeText}, {10})
  \/ RetrieveMemories({InputTrait, InputLong, SomeText})
  \/ /\ now < MaxRankedNow
     /\ Tick
  \/ Collect

SpecRanking == Init /\ [][NextRanking]_vars

\* a content of white space only: content.split() gives no word
BlankText == <<" ", " ">>

\* the read operations on a store that holds few rows or none: memories with
\* and without tags, with and without a word in their content
NextQueries ==
  \/ /\ sqlite_sequence < MaxQueried
     /\ RememberEpisodic({BlankText, SomeText}, {5},
                         {<<>>, ExtractTopics(InputIAm)},
                         {RelationshipContext(Al)})
  \/ RecallEpisodic({10}, {0, 8}, {ExtractTopics(InputIAm)}, {7}, {Al})
  \/ RememberSemantic({FactKey(TextUserTrait, 7)}, {SomeText}, {10})
  \/ RecallSemantic({FactKey(TextUserTrait, 7)})
  \/ FindRelated(1..MaxQueried, {5}, {NULL})
  \/ Tick
  \/ Collect

SpecQueries == Init /\ [][NextQueries]_vars

TypeUnknown == <<"u","n","k","n","o","w","n">>

\* media attached to the memories of a store, and the wipe; the files are a
\* photo, a file that has no extension, and the files of the media directory
\* passed in again by their stored paths
NextMedia ==
  \/ /\ media_sequence < MaxMedia
     /\ RememberMedia({1}, {TypeImage, TypeAudio, TypeUnknown},
          {Photo,
           [path |-> <<"/","u","/","b">>,
            hash |-> <<"8","7","6","5","4","3","2","1","0">>,
            exists |-> TRUE]}
          \cup {[path |-> PathText(f), hash |-> Photo.hash, exists |-> TRUE] :
                  f \in media_dir.files})
  \/ ClearAll({TRUE})
  \/ Collect

SpecMedia == Init /\ [][NextMedia]_vars

\* rows of the store that is recalled from
MaxRecalled == 2

TagCart == <<"c","a","r","t">>

\* memories written with and without tags, recalled by importance, tag and
\* window, and asked for their related memories
NextRecall ==
  \/ /\ sqlite_sequence < MaxRecalled
     /\ RememberEpisodic({SomeText}, {2, 8}, {<<>>, <<TagCart>>, <<TagCart \o <<"s">>>>},
                         {RelationshipContext(Al)})
  \/ RecallEpisodic({1, 2}, {0, 5}, {<<>>}, {0}, {NULL})
  \/ RecallEpisodic({2}, {0}, {<<TagCart>>}, {0}, {NULL})
  \/ RecallEpisodic({2}, {0}, {<<>>}, {1}, {NULL})
  \/ FindRelated(1..MaxRecalled, {5}, {NULL})
  \/ Tick
  \/ Collect

SpecRecall == Init /\ [][NextRecall]_vars

\* ------------------------------------------------- calls at the same time
\* every connection may write at any time
AnyCanWrite(c) == TRUE

\* SQLite gives the write lock of the database file to one connection at a
\* time: connection c may start or go on writing when no other holds it
CanWrite(c) == running.writer \in {"none", c}

\* the call of client c
CallBy(c) == running.calls[c]

\* the store as committed
CommittedStore ==
  [ep |-> episodic_memories, seq |-> sqlite_sequence,
   sem |-> semantic_memories, locked |-> Locked]

\* the log with the call that ends now, kept from the moment a sweep or
\* cleanup connects
Logged(op, key, value, number) ==
  IF running.sweep.op = "none" THEN running.log
  ELSE Append(running.log,
              [op |-> op, key |-> key, value |-> value, number |-> number,
               during |-> running.sweep.pc])

\* remember_semantic up to sqlite3.connect: client c has its connection
ConnectSemantic(c, keys, values, sources) ==
  /\ CallBy(c).pc = "idle"
  /\ \E key \in keys, value \in values, source \in sources :
       running' = [running EXCEPT !.calls[c] =
                     [op |-> "remember_semantic", pc |-> "connected",
                      key |-> key, value |-> value, source |-> source,
                      before |-> semantic_memories, seen |-> 0,
                      raised |-> FALSE]]
  /\ UNCHANGED <<episodic_memories, semantic_memories, sqlite_sequence, now,
                 tz, sona, last, other_tables, media_sequence, media_dir,
                 connections>>

\* cursor.execute of the INSERT OR REPLACE, first half: the statement takes
\* the write lock, waiting while another connection in a call holds it, and
\* evaluates its subquery; it raises "database is locked" when a connection
\* left open keeps the lock
UpsertRead(c) ==
  /\ CallBy(c).op = "remember_semantic" /\ CallBy(c).pc = "connected"
  /\ CanWrite(c)
  /\ IF Locked
       THEN /\ running' = [running EXCEPT
                             !.calls[c].pc = "done",
                             !.calls[c].raised = TRUE,
                             !.log = Logged("remember_semantic", CallBy(c).key,
                                            CallBy(c).value,
                                            CallBy(c).source)]
            /\ LeftOpen
       ELSE /\ running' = [running EXCEPT
                             !.writer = c,
                             !.calls[c].pc = "writing",
                             !.calls[c].seen =
                               IF CallBy(c).key \in SemanticKeys(semantic_memories)
                                 THEN SemanticRow(semantic_memories,
                                                  CallBy(c).key).access_count
                                 ELSE 0]
            /\ Closed
  /\ UNCHANGED <<episodic_memories, semantic_memories, sqlite_sequence, now,
                 tz, sona, last, other_tables, media_sequence, media_dir>>

\* second half, conn.commit() and conn.close(): the rows of the key are
\* replaced by the new row, the lock is given back
UpsertWrite(c) ==
  /\ CallBy(c).op = "remember_semantic" /\ CallBy(c).pc = "writing"
  /\ semantic_memories' =
       {r \in semantic_memories : r.key # CallBy(c).key}
         \cup {[SemanticInsert(semantic_memories, CallBy(c).key,
                               CallBy(c).value, 10, CallBy(c).source, now)
                 EXCEPT !.access_count = CallBy(c).seen + 1]}
  /\ WithinAccessBound(semantic_memories')
  /\ running' = [running EXCEPT
                   !.writer = "none",
                   !.calls[c].pc = "done",
                   !.log = Logged("remember_semantic", CallBy(c).key,
                                  CallBy(c).value, CallBy(c).source)]
  /\ Closed
  /\ UNCHANGED <<episodic_memories, sqlite_sequence, now, tz, sona, last,
                 other_tables, media_sequence, media_dir>>

\* the call of client c has returned or raised; the client goes on
Return(c) ==
  /\ CallBy(c).pc = "done"
  /\ running' = [running EXCEPT !.calls[c] = Idle]
  /\ UNCHANGED <<episodic_memories, semantic_memories, sqlite_sequence, now,
                 tz, sona, last, other_tables, media_sequence, media_dir,
                 connections>>

\* two clients store facts under one key, the clock running
NextUpserts ==
  \/ \E c \in Clients :
       ConnectSemantic(c, {FactKey(TextUserTrait, 7)}, {SomeText, OtherText},
                       {0})
  \/ \E c \in Clients : UpsertRead(c)
  \/ \E c \in Clients : UpsertWrite(c)
  \/ \E c \in Clients : Return(c)
  \/ Tick

SpecUpserts == Init /\ [][NextUpserts]_vars

\* recall_semantic(key) up to sqlite3.connect
ConnectRecall(c, keys) ==
  /\ CallBy(c).pc = "idle"
  /\ \E key \in keys :
       running' = [running EXCEPT !.calls[c] =
                     [op |-> "recall_semantic", pc |-> "connected",
                      key |-> key, value |-> <<>>, source |-> 0,
                      before |-> semantic_memories, seen |-> 0,
                      raised |-> FALSE]]
  /\ UNCHANGED <<episodic_memories, semantic_memories, sqlite_sequence, now,
                 tz, sona, last, other_tables, media_sequence, media_dir,
                 connections>>

\* the SELECT of recall_semantic and fetchone(): without a row the
\* connection is closed and {} returned
RecallSelect(c) ==
  /\ CallBy(c).op = "recall_semantic" /\ CallBy(c).pc = "connected"
  /\ running' =
       IF CallBy(c).key \in SemanticKeys(semantic_memories)
         THEN [running EXCEPT !.calls[c].pc = "found"]
         ELSE [running EXCEPT
                 !.calls[c].pc = "done",
                 !.log = Logged("recall_semantic", CallBy(c).key, <<>>, 0)]
  /\ UNCHANGED <<episodic_memories, semantic_memories, sqlite_sequence, now,
                 tz, sona, last, other_tables, media_sequence, media_dir,
                 connections>>

\* the UPDATE of recall_semantic and conn.commit(); the dict is returned
\* without conn.close().  The UPDATE waits for the write lock and raises
\* when a connection left open keeps it.
RecallUpdate(c) ==
  /\ CallBy(c).op = "recall_semantic" /\ CallBy(c).pc = "found"
  /\ CanWrite(c)
  /\ semantic_memories' =
       IF Locked THEN semantic_memories
       ELSE AccessSemantic(semantic_memories, CallBy(c).key, now)
  /\ WithinAccessBound(semantic_memories')
  /\ running' = [running EXCEPT
                   !.calls[c].pc = "done",
                   !.calls[c].raised = Locked,
                   !.log = Logged("recall_semantic", CallBy(c).key, <<>>, 0)]
  /\ LeftOpen
  /\ UNCHANGED <<episodic_memories, sqlite_sequence, now, tz, sona, last,
                 other_tables, media_sequence, media_dir>>

\* remember_episodic by client c: one INSERT, which waits for the write lock
InsertEpisodic(c, contents, importances) ==
  /\ CallBy(c).pc = "idle"
  /\ CanWrite(c)
  /\ \E content \in contents, importance \in importances :
       LET r == remember_episodic(content, importance, <<>>,
                                  RelationshipContext(Al))
       IN  /\ episodic_memories' = r.rows
           /\ sqlite_sequence' = r.seq
           /\ running' = [running EXCEPT
                            !.log = Logged("remember_episodic", <<>>, content,
                                           importance)]
           /\ IF r.raised THEN LeftOpen ELSE Closed
  /\ UNCHANGED <<semantic_memories, now, tz, sona, last, other_tables,
                 media_sequence, media_dir>>

\* consolidate_memories up to fetchall(): the rows to consolidate, in the
\* order of the SELECT
SweepSelect(thresholds) ==
  /\ running.sweep.op = "none"
  /\ \E days_threshold \in thresholds :
       \E order \in ByImportance(episodic_memories,
                      ToConsolidate(episodic_memories,
                                    CutoffIso(now, tz, days_threshold))) :
         running' = [running EXCEPT
                       !.sweep = [op |-> "consolidate_memories",
                                  pc |-> "fetched",
                                  args |-> <<days_threshold>>,
                                  order |-> order, i |-> 1, marked |-> {},
                                  raised |-> FALSE],
                       !.start = CommittedStore,
                       !.log = <<>>]
  /\ UNCHANGED <<episodic_memories, semantic_memories, sqlite_sequence, now,
                 tz, sona, last, other_tables, media_sequence, media_dir,
                 connections>>

\* the row of the loop of consolidate_memories, as fetched
SweptRow == running.start.ep[running.sweep.order[running.sweep.i]]

\* `if importance > 0.7:` self.remember_semantic(...), on a connection of
\* its own: it waits for a client that writes, and raises "database is
\* locked" when the sweep's own connection or a connection left open holds
\* the lock; the sweep ends there, its UPDATEs not committed and its
\* connection left open
SweepPromote ==
  /\ running.sweep.op = "consolidate_memories"
  /\ running.sweep.pc = "fetched"
  /\ running.sweep.i <= Len(running.sweep.order)
  /\ SweptRow.importance_score > HighImportance
  /\ IF Locked \/ (running.writer = "s" /\ ~CanWrite("p"))
       THEN /\ running' = [running EXCEPT !.sweep.pc = "done",
                                          !.sweep.raised = TRUE,
                                          !.sweep.marked = {},
                                          !.writer = IF @ = "s" THEN "none"
                                                     ELSE @]
            /\ IF running.writer = "s" THEN LeftLocking ELSE LeftOpen
            /\ UNCHANGED semantic_memories
       ELSE /\ CanWrite("p")
            /\ semantic_memories' =
                 remember_semantic(semantic_memories,
                   SemanticKey(running.sweep.order[running.sweep.i]),
                   SweptRow.content, SweptRow.importance_score,
                   running.sweep.order[running.sweep.i], now)
            /\ WithinAccessBound(semantic_memories')
            /\ running' = [running EXCEPT !.sweep.pc = "promoted"]
            /\ Closed
  /\ UNCHANGED <<episodic_memories, sqlite_sequence, now, tz, sona, last,
                 other_tables, media_sequence, media_dir>>

\* UPDATE episodic_memories SET consolidated = 1 WHERE id = ?, on the
\* sweep's connection, which takes the write lock with its first UPDATE and
\* keeps it
SweepMark ==
  /\ running.sweep.op = "consolidate_memories"
  /\ running.sweep.i <= Len(running.sweep.order)
  /\ \/ running.sweep.pc = "promoted"
     \/ /\ running.sweep.pc = "fetched"
        /\ SweptRow.importance_score <= HighImportance
  /\ CanWrite("s")
  /\ IF Locked
       THEN /\ running' = [running EXCEPT !.sweep.pc = "done",
                                          !.sweep.raised = TRUE,
                                          !.sweep.marked = {}]
            /\ LeftOpen
       ELSE /\ running' = [running EXCEPT
                             !.writer = "s",
                             !.sweep.pc = "fetched",
                             !.sweep.i = @ + 1,
                             !.sweep.marked =
                               @ \cup {running.sweep.order[running.sweep.i]}]
            /\ Closed
  /\ UNCHANGED <<episodic_memories, semantic_memories, sqlite_sequence, now,
                 tz, sona, last, other_tables, media_sequence, media_dir>>

\* the table written back as the sweep found it when it connected, the
\* marked rows consolidated
WriteBackFetched(rows, marked) ==
  [i \in DOMAIN running.start.ep |->
     [running.start.ep[i] EXCEPT !.consolidated = @ \/ i \in marked]]

\* the UPDATEs of the sweep committed: the marked rows consolidated
CommitMarks(rows, marked) ==
  [i \in DOMAIN rows |-> [rows[i] EXCEPT !.consolidated = @ \/ i \in marked]]

\* conn.commit() and conn.close() of consolidate_memories
SweepCommit ==
  /\ running.sweep.op = "consolidate_memories"
  /\ running.sweep.pc = "fetched"
  /\ running.sweep.i > Len(running.sweep.order)
  /\ episodic_memories' =
       CommitMarks(episodic_memories, running.sweep.marked)
  /\ running' = [running EXCEPT
                   !.writer = IF @ = "s" THEN "none" ELSE @,
                   !.sweep.pc = "done"]
  /\ Closed
  /\ UNCHANGED <<semantic_memories, sqlite_sequence, now, tz, sona, last,
                 other_tables, media_sequence, media_dir>>

\* clear_old_memories up to fetchall(): the ids to delete; with none the
\* counts are returned at once and the connection is left open
CleanSelect(ages, importances) ==
  /\ running.sweep.op = "none"
  /\ \E days_old \in ages, min_importance \in importances :
       LET memory_ids == OldMemories(episodic_memories,
                                     CutoffIso(now, tz, days_old),
                                     min_importance)
       IN  /\ running' = [running EXCEPT
                            !.sweep = [op |-> "clear_old_memories",
                                       pc |-> IF memory_ids = {} THEN "done"
                                              ELSE "fetched",
                                       args |-> <<days_old, min_importance>>,
                                       order |-> <<>>, i |-> 1,
                                       marked |-> memory_ids,
                                       raised |-> FALSE],
                            !.start = CommittedStore,
                            !.log = <<>>]
           /\ IF memory_ids = {} THEN LeftOpen ELSE Closed
  /\ UNCHANGED <<episodic_memories, semantic_memories, sqlite_sequence, now,
                 tz, sona, last, other_tables, media_sequence, media_dir>>

\* the five DELETEs of clear_old_memories, conn.commit() and conn.close():
\* one transaction, which waits for the write lock; the first DELETE raises
\* when a connection left open keeps the lock
CleanDelete ==
  /\ running.sweep.op = "clear_old_memories"
  /\ running.sweep.pc = "fetched"
  /\ CanWrite("s")
  /\ IF Locked
       THEN /\ running' = [running EXCEPT !.sweep.pc = "done",
                                          !.sweep.raised = TRUE]
            /\ LeftOpen
            /\ UNCHANGED <<episodic_memories, semantic_memories,
                           memory_associations, media_memories,
                           emotional_memories>>
       ELSE /\ memory_associations' =
                 {a \in memory_associations :
                    a.memory_id_1 \notin running.sweep.marked
                      /\ a.memory_id_2 \notin running.sweep.marked}
            /\ media_memories' =
                 DeleteByMemoryId(media_memories, running.sweep.marked)
            /\ emotional_memories' =
                 DeleteByMemoryId(emotional_memories, running.sweep.marked)
            /\ semantic_memories' =
                 {r \in semantic_memories :
                    r.source_memory_id \notin running.sweep.marked}
            /\ episodic_memories' =
                 [i \in DOMAIN episodic_memories \ running.sweep.marked |->
                    episodic_memories[i]]
            /\ running' = [running EXCEPT !.sweep.pc = "done"]
            /\ Closed
  /\ UNCHANGED <<sqlite_sequence, now, tz, sona, last, media_sequence,
                 media_dir, relationship_milestones, user_preferences,
                 conversation_patterns>>

\* rows of the store that is swept while its clients call it
MaxSwept == 2

\* calls of the clients from the moment a sweep connects
MaxCalls == 2

\* a client may start one more call
CallsLeft ==
  Len(running.log) + Cardinality({c \in Clients : CallBy(c).pc # "idle"})
    < MaxCalls

\* the calls of two clients on connections of their own, before, during
\* and after one sweep or cleanup
NextSweeps ==
  \/ /\ sqlite_sequence < MaxSwept /\ CallsLeft
     /\ \E c \in Clients : InsertEpisodic(c, {SomeText}, {2, 8})
  \/ /\ CallsLeft
     /\ \E c \in Clients :
          ConnectSemantic(c, {SemanticKey(1)}, {OtherText}, {1})
  \/ /\ CallsLeft
     /\ \E c \in Clients : ConnectRecall(c, {SemanticKey(1)})
  \/ \E c \in Clients : UpsertRead(c)
  \/ \E c \in Clients : UpsertWrite(c)
  \/ \E c \in Clients : RecallSelect(c)
  \/ \E c \in Clients : RecallUpdate(c)
  \/ \E c \in Clients : Return(c)
  \/ SweepSelect({0})
  \/ SweepPromote
  \/ SweepMark
  \/ SweepCommit
  \/ CleanSelect({0}, {3})
  \/ CleanDelete
  \/ Collect

SpecSweeps == Init /\ [][NextSweeps]_vars

\* ------------------------------------------------------------- properties
\* the step is a call of op; a step that only closes the connections left
\* open is no call
CallOf(op) ==
  /\ last'.op = op
  /\ ~(connections # "none" /\ connections' = "none")

\* the persona tag a row was written with
WrittenWith(i, persona) ==
  episodic_memories[i].relationship_context = RelationshipContext(persona)

\* C1: recall_episodic called with persona A returns no memory that was
\* written with relationship_context "conversation|persona:B" for a persona
\* B other than A.
C1_RecallIsolated ==
  last.op = "recall_episodic" =>
    \A k \in DOMAIN last.result :
      \A B \in PersonaNames \ {last.args.persona} :
        ~WrittenWith(last.result[k], B)

\* a row carries the tag of a persona other than the given one
ForeignTo(i, persona) ==
  \E B \in PersonaNames \ {persona} : WrittenWith(i, B)

\* C2: every read path filters on the persona tag: retrieve_memories and
\* the Memories page return no memory tagged with a persona other than the
\* active one, and get_proactive_suggestions offers to revisit conversations
\* only when a memory that is not tagged with another persona qualifies.
C2_ReadPathsFiltered ==
  /\ last.op = "retrieve_memories" =>
       \A k \in DOMAIN last.result.episodic :
         ~ForeignTo(last.result.episodic[k], last.args.persona)
  /\ last.op = "memories_page" =>
       \A k \in DOMAIN last.result :
         ~ForeignTo(last.result[k], last.args.persona)
  /\ last.op = "get_proactive_suggestions" /\ last.result.revisit =>
       \E i \in EpisodicWhere(episodic_memories, 7, <<>>, 7, NULL) :
         ~ForeignTo(i, last.args.persona)

\* C3: the semantic part of a bundle built for a persona holds no fact that
\* was written during a conversation of another persona.
C3_SemanticScoped ==
  last.op = "retrieve_memories" =>
    \A topic \in DOMAIN last.result.semantic :
      LET source == SemanticRow(semantic_memories, topic).source_memory_id
      IN  source \in DOMAIN episodic_memories =>
            WrittenWith(source, last.args.persona)

\* C4: find_related_memories returns neither the target nor a memory of a
\* persona other than the target's, whether the persona is passed (the
\* target's own) or omitted and derived from the target.
C4_RelatedIsolated ==
  ( /\ last.op = "find_related_memories"
    /\ last.args.memory_id \in DOMAIN episodic_memories
    /\ \/ last.args.persona = NULL
       \/ WrittenWith(last.args.memory_id, last.args.persona) ) =>
    \A k \in DOMAIN last.result :
      /\ last.result[k] # last.args.memory_id
      /\ episodic_memories[last.result[k]].relationship_context =
           episodic_memories[last.args.memory_id].relationship_context

\* C5: every stored episodic memory has an importance within [0,1]; a call
\* with an importance outside is stored clamped and is not rejected for it.
C5_ImportanceClamped ==
  /\ \A i \in DOMAIN episodic_memories :
       /\ episodic_memories[i].importance_score >= 0
       /\ episodic_memories[i].importance_score <= 10
  /\ ( /\ last.op = "remember_episodic"
       /\ last.args.content \notin {NULL, NoText} ) =>
       /\ ~last.raised
       /\ last.args.importance < 0 =>
            episodic_memories[last.result].importance_score = 0
       /\ last.args.importance > 10 =>
            episodic_memories[last.result].importance_score = 10

\* C6: remember_episodic with empty content fails and leaves the episodic
\* table as it was: no row is inserted, no id is used up.
C6_EmptyContentRejected ==
  [][ ( CallOf("remember_episodic") /\ last'.args.content = NoText ) =>
        /\ last'.raised
        /\ episodic_memories' = episodic_memories
        /\ sqlite_sequence' = sqlite_sequence ]_vars

\* C7: running consolidate_memories(d) twice in a row leaves the store that
\* one run leaves: the second run changes no semantic fact (none created, no
\* access_count raised) and no episodic row.
C7_ConsolidateIdempotent ==
  [][ ( /\ last.op = "consolidate_memories"
        /\ CallOf("consolidate_memories")
        /\ last'.args = last.args ) =>
        /\ semantic_memories' = semantic_memories
        /\ episodic_memories' = episodic_memories ]_vars

\* the age of a row at the time of the call, in ticks
Age(i) == now - InstantOf(episodic_memories[i].timestamp)

\* C8: consolidate_memories(d) completes, and afterwards every row that was
\* unconsolidated and older than d days is consolidated, whatever its
\* importance, while a row newer than d days keeps its flag and gets no
\* semantic fact.
C8_ConsolidateMarksOld ==
  [][ CallOf("consolidate_memories") =>
        LET d == last'.args.days_threshold * TicksPerDay
        IN  /\ ~last'.raised
            /\ \A i \in DOMAIN episodic_memories :
                 /\ ( ~episodic_memories[i].consolidated /\ Age(i) > d ) =>
                      episodic_memories'[i].consolidated
                 /\ Age(i) < d =>
                      /\ episodic_memories'[i].consolidated =
                           episodic_memories[i].consolidated
                      /\ SemanticKey(i) \notin SemanticKeys(semantic_memories) =>
                           SemanticKey(i) \notin SemanticKeys(semantic_memories') ]_vars

\* the semantic fact consolidation derives from episodic row i is stored
Promoted(table, rows, i) ==
  /\ SemanticKey(i) \in SemanticKeys(table)
  /\ SemanticRow(table, SemanticKey(i)).value = rows[i].content
  /\ SemanticRow(table, SemanticKey(i)).confidence = rows[i].importance_score
  /\ SemanticRow(table, SemanticKey(i)).source_memory_id = i

\* C9: a memory selected by consolidate_memories gets a semantic fact if and
\* only if its importance is above 0.7; the fact has key
\* important_event_{id}, the content as value, the importance as confidence
\* and the id as source_memory_id.
C9_PromotionRule ==
  [][ CallOf("consolidate_memories") =>
        \A i \in last'.result :
          /\ episodic_memories[i].importance_score > 7 =>
               Promoted(semantic_memories', episodic_memories, i)
          /\ episodic_memories[i].importance_score <= 7 =>
               ( SemanticKey(i) \notin SemanticKeys(semantic_memories) =>
                   SemanticKey(i) \notin SemanticKeys(semantic_memories') ) ]_vars

\* C10: the consolidated flag is false in a row remember_episodic creates,
\* and a row whose flag is true keeps it true for as long as it exists.
C10_ConsolidatedMonotonic ==
  [][ /\ \A i \in DOMAIN episodic_memories' \ DOMAIN episodic_memories :
           ~episodic_memories'[i].consolidated
      /\ \A i \in DOMAIN episodic_memories \cap DOMAIN episodic_memories' :
           episodic_memories[i].consolidated =>
             episodic_memories'[i].consolidated ]_vars

\* a sweep was repeated: it ran while a consolidated row existed and found
\* nothing to fetch
C10_AfterRepeatedSweep ==
  /\ last.op = "consolidate_memories"
  /\ last.result = {}
  /\ \E i \in DOMAIN episodic_memories : episodic_memories[i].consolidated

\* ------------------------------------------------------------- retention
\* the episodic rows a call removed
Removed == DOMAIN episodic_memories \ DOMAIN episodic_memories'

\* C11: right after clear_old_memories returns, no row of media_memories,
\* memory_associations (either column), emotional_memories or
\* semantic_memories references the id of an episodic row the call deleted.
C11_CascadeComplete ==
  [][ CallOf("clear_old_memories") =>
        /\ \A k \in DOMAIN media_memories' :
             media_memories'[k].memory_id \notin Removed
        /\ \A a \in memory_associations' :
             a.memory_id_1 \notin Removed /\ a.memory_id_2 \notin Removed
        /\ \A k \in DOMAIN emotional_memories' :
             emotional_memories'[k].memory_id \notin Removed
        /\ \A r \in semantic_memories' :
             r.source_memory_id \notin Removed ]_vars

\* a cleanup has deleted an episodic row together with a semantic fact and a
\* media or emotional row that referenced it
C11_CascadeDone ==
  /\ last.op = "clear_old_memories"
  /\ last.result.episodic > 0
  /\ last.result.semantic > 0
  /\ last.result.media + last.result.emotional > 0

\* C12: clear_old_memories(daysOld, minImportance) deletes exactly the
\* episodic rows older than daysOld days whose importance is strictly below
\* minImportance, leaves every other episodic row as it was, and returns an
\* 'episodic' count equal to the number of rows it removed.  (A row written
\* exactly daysOld days before the call, to the tick, may go either way.)
C12_ClearOldExact ==
  [][ CallOf("clear_old_memories") =>
        LET d == last'.args.days_old * TicksPerDay
            low(i) == episodic_memories[i].importance_score
                        < last'.args.min_importance
        IN  /\ \A i \in DOMAIN episodic_memories :
                 /\ Age(i) > d /\ low(i) => i \in Removed
                 /\ Age(i) < d \/ ~low(i) => i \notin Removed
            /\ \A i \in DOMAIN episodic_memories' :
                 episodic_memories'[i] = episodic_memories[i]
            /\ last'.result.episodic = Cardinality(Removed) ]_vars

\* C13: when the SELECT of clear_old_memories finds no episodic row, the
\* call returns zero for every count and leaves every table unchanged.
C13_ClearOldNoOp ==
  [][ /\ CallOf("clear_old_memories")
      /\ \A i \in DOMAIN episodic_memories :
           \/ ~TextLess(episodic_memories[i].timestamp,
                        CutoffIso(now, tz, last'.args.days_old))
           \/ episodic_memories[i].importance_score
                >= last'.args.min_importance
      => /\ \A k \in DOMAIN last'.result : last'.result[k] = 0
         /\ UNCHANGED <<episodic_memories, semantic_memories, other_tables>>
    ]_vars

\* a cleanup that found nothing to delete has returned while the episodic
\* table and a table that references it hold rows
C13_NothingSelected ==
  /\ last.op = "clear_old_memories"
  /\ last.result.episodic = 0
  /\ DOMAIN episodic_memories # {}
  /\ Len(media_memories) + Len(emotional_memories) > 0

\* C14: when clear_old_memories deletes the media rows of a reaped memory,
\* the files in the media directory that only those rows name exist no
\* longer afterwards.
C14_MediaFilesRemoved ==
  [][ CallOf("clear_old_memories") =>
        \A k \in DOMAIN media_memories :
          media_memories[k].memory_id \in Removed =>
            \/ media_memories[k].file_path \notin media_dir'.files
            \/ \E j \in DOMAIN media_memories' :
                 media_memories'[j].file_path = media_memories[k].file_path
    ]_vars

C16_SemanticUpsert ==
  [][ /\ \A r, q \in semantic_memories' : r.key = q.key => r = q
      /\ CallOf("remember_semantic") =>
           last'.args.key \in SemanticKeys(semantic_memories')
      /\ \A r \in semantic_memories' :
           IF CallOf("remember_semantic") /\ r.key = last'.args.key
             THEN /\ r.value = last'.args.value
                  /\ r.confidence = last'.args.confidence
             ELSE \E q \in semantic_memories :
                    /\ q.key = r.key
                    /\ q.value = r.value
                    /\ q.confidence = r.confidence ]_vars

\* a fact has been stored again under its key with another value, next to a
\* fact of another key
C16_Replaced ==
  /\ last.op = "remember_semantic"
  /\ \E r \in semantic_memories :
       /\ r.key = last.args.key
       /\ r.value = OtherText
       /\ r.access_count = 2
  /\ Cardinality(semantic_memories) = 2

\* the access_count of the fact of a key, 0 when there is none
CountOf(table, key) ==
  IF key \in SemanticKeys(table) THEN SemanticRow(table, key).access_count
  ELSE 0

\* C17: the first remember_semantic of a key sets access_count to 1; every
\* later remember_semantic of the key and every recall_semantic(key) that
\* finds the fact raises it by exactly 1 and sets last_accessed to the time
\* of the call; the access_count of an existing fact never decreases.
C17_AccessCountRule ==
  [][ /\ ( \/ CallOf("remember_semantic")
           \/ /\ CallOf("recall_semantic")
              /\ Given(last'.args.key)
              /\ last'.args.key \in SemanticKeys(semantic_memories) ) =>
           /\ CountOf(semantic_memories', last'.args.key)
                = CountOf(semantic_memories, last'.args.key) + 1
           /\ SemanticRow(semantic_memories', last'.args.key).last_accessed
                = CurrentTimestamp(now)
      /\ \A r \in semantic_memories :
           CountOf(semantic_memories', r.key) >= r.access_count ]_vars

\* a fact was stored, found by a read at a later time, and so counts 2
C17_ReadCounted ==
  /\ last.op = "recall_semantic"
  /\ last.args.key \in SemanticKeys(semantic_memories)
  /\ CountOf(semantic_memories, last.args.key) = 2
  /\ now > 0
  /\ SemanticRow(semantic_memories, last.args.key).last_accessed
       = CurrentTimestamp(now)

\* C18 as claimed: every semantic read raises the access_count of each fact
\* it returns, recall_semantic(key) of the fact found and recall_semantic()
\* with no key of every fact of the table.
C18_EveryReadCounts ==
  [][ CallOf("recall_semantic") =>
        \A r \in semantic_memories :
          last'.args.key = NULL \/ r.key = last'.args.key =>
            CountOf(semantic_memories', r.key) = r.access_count + 1 ]_vars

\* C18 as amended: recall_semantic(key) raises the access_count of the fact
\* it finds by 1 and of no other fact; recall_semantic() with no key returns
\* every fact and changes no access_count.
C18_KeyedReadCounts ==
  [][ CallOf("recall_semantic") =>
        /\ \A r \in semantic_memories :
             CountOf(semantic_memories', r.key) =
               IF Given(last'.args.key) /\ r.key = last'.args.key
                 THEN r.access_count + 1 ELSE r.access_count
        /\ ~Given(last'.args.key) =>
             /\ DOMAIN last'.result.facts = SemanticKeys(semantic_memories)
             /\ semantic_memories' = semantic_memories ]_vars

\* a read with no key has returned two facts
C18_ListedAll ==
  /\ last.op = "recall_semantic"
  /\ ~Given(last.args.key)
  /\ Cardinality(semantic_memories) = 2
  /\ Len(last.result.keys) = 2

\* ---------------------------------------------------------------- ranking
\* the ids of list that are not among those of first, in the order of list
NotIn(list, first) == SelectSeq(list, LAMBDA m : m \notin Range(first))

\* C19: the episodic list of the bundle retrieve_memories builds is the
\* Pass A result (recall_episodic with limit 3, importance >= 0.3, the first
\* 3 topics as tags, 30 days, the persona; at most 3 entries in importance
\* DESC, timestamp DESC order; empty without topics) followed by the entries
\* of Pass B (limit 2, importance >= 0.5, 7 days, the persona; at most 2)
\* whose id is not in Pass A.  It holds no id twice, has at most 5 entries,
\* every Pass A entry comes before every Pass B entry whatever their
\* importance, and a second call on the unchanged store returns the same
\* list.
C19_RankingMerge ==
  [][ CallOf("retrieve_memories") =>
        \A result \in {last'.result} :
          \A topics \in {ExtractTopics(last'.args.user_input)} :
            \A passA \in {result.topic_memories} :
              \A passB \in {result.recent_memories} :
                \A merged \in {result.episodic} :
                  /\ IF topics = <<>> THEN passA = <<>>
                     ELSE passA \in recall_episodic(3, 3, Take(topics, 3),
                                                    30, sona)
                  /\ passB \in recall_episodic(2, 5, <<>>, 7, sona)
                  /\ Len(passA) <= 3 /\ Len(passB) <= 2
                  /\ \A i, j \in DOMAIN passA :
                       i < j => RankedBefore(episodic_memories[passA[i]],
                                             episodic_memories[passA[j]])
                  /\ merged = passA \o NotIn(passB, passA)
                  /\ \A i, j \in DOMAIN merged :
                       i # j => merged[i] # merged[j]
                  /\ Len(merged) <= 5
                  /\ \A i, j \in DOMAIN merged :
                       (merged[i] \in Range(passA)
                          /\ merged[j] \notin Range(passA)) => i < j
                  /\ ( /\ last.op = "retrieve_memories"
                       /\ last.args = last'.args
                       /\ episodic_memories' = episodic_memories )
                       => merged = last.result.episodic ]_vars

\* a bundle where Pass A gave 3 memories, two of them of equal importance
\* written at different times, Pass B gave a memory Pass A has and one it
\* has not, and the one it has not is more important than the last of Pass A
C19_MergedPasses ==
  /\ last.op = "retrieve_memories"
  /\ Len(last.result.topic_memories) = 3
  /\ Len(last.result.recent_memories) = 2
  /\ Len(last.result.episodic) = 4
  /\ episodic_memories[last.result.episodic[4]].importance_score
       > episodic_memories[last.result.episodic[3]].importance_score
  /\ \E i, j \in DOMAIN episodic_memories :
       /\ episodic_memories[i].timestamp # episodic_memories[j].timestamp
       /\ episodic_memories[i].importance_score
            = episodic_memories[j].importance_score
       /\ {i, j} \subseteq Range(last.result.topic_memories)

\* C20: the bundle is bounded: at most 5 episodic entries, at most 3 semantic
\* entries, each for one of the first 3 topics, at most 2 related entries,
\* and no related entry when Pass A returned nothing.
C20_BundleBounded ==
  last.op = "retrieve_memories" =>
    /\ Len(last.result.episodic) <= 5
    /\ Cardinality(DOMAIN last.result.semantic) <= 3
    /\ DOMAIN last.result.semantic
         \subseteq Range(Take(ExtractTopics(last.args.user_input), 3))
    /\ Len(last.result.related) <= 2
    /\ last.result.topic_memories = <<>> => last.result.related = <<>>

\* a bundle where Pass A was cut to 3 of 4 tagged memories, with 2 related
\* entries of the 3 memories that share the target's tag, and without the
\* fact whose key is the fourth topic of the input
C20_CapsReached ==
  /\ last.op = "retrieve_memories"
  /\ last.args.user_input = InputLong
  /\ Len(last.result.related) = 2
  /\ Len(last.result.topic_memories) = 3
  /\ Cardinality(DOMAIN episodic_memories) = 4
  /\ \A i \in DOMAIN episodic_memories :
       episodic_memories[i].tags # NULL
  /\ FactKey(TextUserTrait, 7) \in SemanticKeys(semantic_memories)
  /\ DOMAIN last.result.semantic = {}

\* ---------------------------------------------------------- empty results
\* C21: a query with no match returns an empty collection and never raises
\* or returns null: recall_episodic with no matching row gives the empty
\* list, recall_semantic with a key no row has gives the empty dict,
\* find_related_memories gives the empty list for an id no row has and for a
\* target without tags whose content has no word.
C21_EmptyNeverRaises ==
  /\ ( /\ last.op = "recall_episodic"
       /\ EpisodicWhere(episodic_memories, last.args.min_importance,
                        last.args.tags, last.args.days_back,
                        last.args.persona) = {} )
       => ~last.raised /\ last.result = <<>>
  /\ ( /\ last.op = "recall_semantic"
       /\ last.args.key \notin SemanticKeys(semantic_memories) )
       => ~last.raised /\ last.result = <<>>
  /\ ( /\ last.op = "find_related_memories"
       /\ last.args.memory_id \notin DOMAIN episodic_memories )
       => ~last.raised /\ last.result = <<>>
  /\ ( /\ last.op = "find_related_memories"
       /\ last.args.memory_id \in DOMAIN episodic_memories
       /\ episodic_memories[last.args.memory_id].tags = NULL
       /\ Keywords(episodic_memories[last.args.memory_id].content) = {} )
       => ~last.raised /\ last.result = <<>>

\* C22: between two calls the store has no connection left open and no
\* connection holding the write lock: every operation closes the connection
\* it opened on every path out, the return of recall_semantic for a key that
\* is found, its listing without a key, the return of find_related_memories
\* for an unknown id and the return of clear_old_memories for an empty
\* selection included.
C22_NoOpenConnection == connections = "none"

\* the text lies under the managed media directory
InMediaRoot(text) ==
  /\ StartsWith(text, MediaRoot \o <<"/">>)
  /\ ~Contains(text, <<"/",".",".","/">>)

RanksAsHigh(i, j) ==
  \/ episodic_memories[i].importance_score > episodic_memories[j].importance_score
  \/ /\ episodic_memories[i].importance_score = episodic_memories[j].importance_score
     /\ InstantOf(episodic_memories[i].timestamp) >= InstantOf(episodic_memories[j].timestamp)

TagSet(i) ==
  IF episodic_memories[i].tags = NULL THEN {}
  ELSE Range(JsonLoads(episodic_memories[i].tags))

\* C26: tags are matched whole and by OR: recall_episodic with a tag list
\* returns only memories whose tag set holds one of the tags given, and
\* find_related_memories of a tagged memory returns only memories whose tag
\* set shares a tag with the target's.
C26_WholeTagMatch ==
  /\ (last.op = "recall_episodic" /\ last.args.tags # <<>>)
       => \A k \in DOMAIN last.result :
            TagSet(last.result[k]) \cap Range(last.args.tags) # {}
  /\ ( /\ last.op = "find_related_memories" /\ ~last.raised
       /\ last.args.memory_id \in DOMAIN episodic_memories
       /\ TagSet(last.args.memory_id) # {} )
       => \A k \in DOMAIN last.result :
            TagSet(last.result[k]) \cap TagSet(last.args.memory_id) # {}

\* C27: the days_back window is exact in time: with days_back = N
\* recall_episodic returns a memory of sufficient importance that was written
\* less than N days before the call, and none written more than N days
\* before it (as many memories as the limit lets through).
C27_WindowExact ==
  ( /\ last.op = "recall_episodic" /\ last.args.days_back # 0
    /\ last.args.tags = <<>> /\ last.args.persona = NULL
    /\ Len(episodic_memories) <= last.args.limit )
    => \A i \in DOMAIN episodic_memories :
         \A age \in {now - InstantOf(episodic_memories[i].timestamp)} :
           /\ ( /\ age < last.args.days_back * TicksPerDay
                /\ episodic_memories[i].importance_score >= last.args.min_importance )
                => i \in Range(last.result)
           /\ age > last.args.days_back * TicksPerDay
                => i \notin Range(last.result)

\* C28: between the calls, after a sweep that raised included, the fact
\* important_event_{id} is stored only if the episodic row of that id is
\* marked consolidated or is no longer there.
C28_PromotedIsMarked ==
  \A i \in 1..sqlite_sequence :
    SemanticKey(i) \in SemanticKeys(semantic_memories)
      => \/ i \notin DOMAIN episodic_memories
         \/ episodic_memories[i].consolidated

\* C29: in every state each memory_id of media_memories, each memory_id of
\* emotional_memories that is not null and each source_memory_id of
\* semantic_memories that is not null (0 stands for null) is the id of a row
\* of episodic_memories.
C29_ReferencesExist ==
  /\ \A k \in DOMAIN media_memories :
       media_memories[k].memory_id \in DOMAIN episodic_memories
  /\ \A k \in DOMAIN emotional_memories :
       emotional_memories[k].memory_id # 0
         => emotional_memories[k].memory_id \in DOMAIN episodic_memories
  /\ \A r \in semantic_memories :
       r.source_memory_id # 0
         => r.source_memory_id \in DOMAIN episodic_memories

\* C30: when two calls of remember_semantic on one key, made at the same
\* time on two connections, have both returned, the table has one row of the
\* key, with the value of one of the two calls and an access_count 2 above
\* the one the key had before (2 for a new key).
C30_NoLostUpdate ==
  \A c, d \in Clients :
    ( /\ c # d
      /\ CallBy(c).op = "remember_semantic" /\ CallBy(c).pc = "done"
      /\ CallBy(d).op = "remember_semantic" /\ CallBy(d).pc = "done"
      /\ ~CallBy(c).raised /\ ~CallBy(d).raised
      /\ CallBy(c).key = CallBy(d).key
      /\ CallBy(c).before = CallBy(d).before )
      => /\ Cardinality({r \in semantic_memories : r.key = CallBy(c).key}) = 1
         /\ SemanticRow(semantic_memories, CallBy(c).key).value
              \in {CallBy(c).value, CallBy(d).value}
         /\ \A r \in semantic_memories :
              r.key = CallBy(c).key
                => \/ /\ CallBy(c).key \notin SemanticKeys(CallBy(c).before)
                      /\ r.access_count = 2
                   \/ \E b \in CallBy(c).before :
                        /\ b.key = r.key
                        /\ r.access_count = b.access_count + 2

\* two calls that started on the same store with two values for a new key
\* have both returned
C30_BothReturned ==
  /\ CallBy("a").pc = "done" /\ CallBy("b").pc = "done"
  /\ CallBy("a").key = CallBy("b").key
  /\ CallBy("a").before = {} /\ CallBy("b").before = {}
  /\ CallBy("a").value # CallBy("b").value
  /\ \E r \in semantic_memories : r.key = CallBy("a").key

\* ------------------------------------------------------ calls one by one
\* the store st after the call e of the log, made alone on a store no
\* open connection keeps locked
SerialCall(st, e) ==
  IF e.op = "remember_semantic"
    THEN [st EXCEPT !.sem = remember_semantic(st.sem, e.key, e.value, 10,
                                              e.number, now)]
  ELSE IF e.op = "recall_semantic"
    THEN [st EXCEPT !.sem = IF e.key \in SemanticKeys(st.sem)
                              THEN AccessSemantic(st.sem, e.key, now)
                              ELSE st.sem]
  ELSE IF e.op = "remember_episodic"
    THEN [st EXCEPT
            !.seq = st.seq + 1,
            !.ep = [i \in DOMAIN st.ep \cup {st.seq + 1} |->
                      IF i = st.seq + 1
                        THEN [timestamp |-> CurrentTimestamp(now),
                              content |-> e.value,
                              importance_score |-> e.number,
                              tags |-> NULL,
                              relationship_context |-> RelationshipContext(Al),
                              consolidated |-> FALSE]
                        ELSE st.ep[i]]]
  ELSE IF e.op = "consolidate_memories"
    THEN LET ids == ToConsolidate(st.ep, CutoffIso(now, tz, e.value[1]))
             order == CHOOSE o \in ByImportance(st.ep, ids) : TRUE
             r == ConsolidateLoop(order, 1, st.ep, st.ep, st.sem, FALSE, now)
         IN  [ep |-> r.rows, seq |-> st.seq, sem |-> r.sem,
              locked |-> r.raised]
  ELSE LET memory_ids == OldMemories(st.ep, CutoffIso(now, tz, e.value[1]),
                                     e.value[2])
       IN  [st EXCEPT
              !.ep = [i \in DOMAIN st.ep \ memory_ids |-> st.ep[i]],
              !.sem = {r \in st.sem : r.source_memory_id \notin memory_ids}]

\* the stores the call e can leave st in: while an open connection keeps
\* the lock a write fails and changes nothing, until the connection is
\* collected
SerialStep(st, e) ==
  IF st.locked
    THEN {st, SerialCall([st EXCEPT !.locked = FALSE], e)}
    ELSE {SerialCall(st, e)}

\* the stores the calls of ops, made one after the other from position i
\* on, can leave the stores of `stores` in
RECURSIVE SerialRun(_, _, _)
SerialRun(stores, ops, i) ==
  IF i > Len(ops) THEN stores
  ELSE SerialRun(UNION {SerialStep(st, ops[i]) : st \in stores}, ops, i + 1)

\* the orders the calls of ops can be made in
SerialOrders(ops) ==
  {[k \in DOMAIN ops |-> ops[f[k]]] :
     f \in {g \in [DOMAIN ops -> DOMAIN ops] :
              \A i, j \in DOMAIN ops : g[i] = g[j] => i = j}}

\* the sweep or cleanup and the calls of the clients that ended since it
\* connected
CallsOfTheRun ==
  Append(running.log,
         [op |-> running.sweep.op, key |-> <<>>, value |-> running.sweep.args,
          number |-> 0, during |-> "done"])

\* C23: when a sweep or a cleanup has ended and no call of a client is in
\* progress, the episodic and semantic tables are what the sweep or cleanup
\* and the calls of the clients that ended since it connected leave when
\* made one after the other in some order.
C23_Serializable ==
  ( /\ running.sweep.pc = "done"
    /\ \A c \in Clients : CallBy(c).pc \in {"idle", "done"} )
    => \E order \in SerialOrders(CallsOfTheRun) :
         \E st \in SerialRun({running.start}, order, 1) :
           /\ st.ep = episodic_memories
           /\ st.seq = sqlite_sequence
           /\ st.sem = semantic_memories

\* a sweep promoted and marked row 1 and ended, and a client stored a fact
\* under the key of the promoted fact while the sweep was in progress
C23_WroteDuringSweep ==
  /\ running.sweep.op = "consolidate_memories"
  /\ running.sweep.pc = "done" /\ ~running.sweep.raised
  /\ 1 \in DOMAIN episodic_memories /\ episodic_memories[1].consolidated
  /\ episodic_memories[1].importance_score > HighImportance
  /\ \A c \in Clients : CallBy(c).pc \in {"idle", "done"}
  /\ \E k \in DOMAIN running.log :
       /\ running.log[k].op = "remember_semantic"
       /\ running.log[k].key = SemanticKey(1)
       /\ running.log[k].during = "promoted"

============================================================================
